---- MODULE Spec2Model ----
(***************************************************************************)
(* State-machine model of the crawler core of xaltyd/crime:                *)
(*   - ScrapingCoordinator (src/distributed_scraper.py): the shared ledger *)
(*     of page work items and worker registrations;                        *)
(*   - Search.get_records / get_records_with_checkpoint (src/docket.py,    *)
(*     src/checkpoint.py): the postback pagination traversal;              *)
(*   - RecordParser.parse_conviction_charges (src/record_parser.py): the   *)
(*     charge extraction and the reconciliation of modified charges.       *)
(* Each subsystem has its own specification over the shared variables.     *)
(***************************************************************************)
EXTENDS Integers, Sequences, FiniteSets, TLC

(***************************************************************************)
(* Bounds of the model.                                                    *)
(***************************************************************************)
\* largest total_pages handed to initialize_pages
MaxPages == 2
\* number of clock ticks the model lets pass
MaxTicks == 2
\* cap on workers.pages_completed (an unbounded counter in the code)
MaxCompleted == 1
\* the same two bounds in the long-running specification SpecLong
MaxPagesLong == 2
MaxTicksLong == 4
\* pages of the ledger the workers run on
MaxLedger == 3
\* ticks of the clock while workers run
MaxTicksWork == 1
\* largest number of pages of a listing on the server
MaxResultPages == 11
\* processes of docket.py started one after the other
MaxRuns == 2
\* rows of the main charge table used for reconciliation
MaxCharges == 3
\* rows of the modification table
MaxMods == 3
\* cells of a row of the main table
MaxCells == 12
\* initialize_pages calls that may be in flight between their COUNT and INSERT
MaxInits == 2
\* search types that get initialised in one run
MaxTypes == 1
\* attempts of one exchange that the network lets fail
MaxAttempts == 5
\* rows of one result page
MaxRows == 3
\* calls made on one CheckpointManager
MaxCalls == 3

(***************************************************************************)
(* Program constants of the coordinator.                                   *)
(***************************************************************************)
\* datetime(assigned_at, '+30 minutes')
LeaseMinutes == 30
\* AND retry_count < 3
MaxRetries == 3
\* retry_count INTEGER DEFAULT 0 ; pages_completed INTEGER DEFAULT 0
DefaultCount == 0
\* get_next_page returns None when no pending page exists
NoPage == 0

(***************************************************************************)
(* Program constants of the traversal and of the checkpoint.               *)
(***************************************************************************)
DEBUGGING == FALSE
LIMIT_RECORDS == TRUE
RECORD_LIMIT == 50
DEBUG_LIMIT == 20
\* if DEBUGGING: if count >= 30  (get_records_with_checkpoint)
DebugStop == 30
\* float('inf')
NoLimit == 0 - 1
\* Save every 10 pages
SaveEvery == 10
\* We need at most 11 cells
NumColumns == 11
\* if len(statute_matches) < 3
MinStatutes == 3
\* a response without a page marker
NoMarker == 0
\* last_href = None
NoHref == 0
\* rows with a link on each page of a listing, none of them sealed
RowChoices == {10, 25}

\* ensure_connection: delay = 60 (seconds)
delay == 60
\* Record.get: max_retries = 3
max_retries == 3
\* payload = None
None == "None"

\* SQL NULL for the TEXT column worker_id and for the TIMESTAMP columns
NULL == "NULL"
NullTime == 0 - 1

\* argparse choices of --type
SearchTypes == {"pending", "conviction"}
\* --worker: any unique string
WorkerIds == {"w1", "w2"}

\* the clock advances in steps of one lease length, so that a lease is seen
\* both exactly at its limit (not yet abandoned) and past it
TickMinutes == LeaseMinutes
\* in SpecLong it advances by two lease lengths: every tick ends every lease
TickMinutesLong == 2 * LeaseMinutes

VARIABLES
    \* ScrapingCoordinator
    pages,        \* table pages: search_type -> sequence of rows, by page_number
    workers,      \* table workers: registered worker_id -> row
    now,          \* datetime('now'), in minutes
    initPending,  \* initialize_pages calls that counted 0 rows and have not inserted yet
    last,         \* the last coordinator call and what it returned
    handouts,     \* (search_type, page_number) -> how often get_next_page returned it
    \* pagination and checkpoint
    srv,          \* the listing on the server: its number of pages and rows per page
    file,         \* the checkpoint file: whether it exists, decodes, and its JSON document
    ckpt,         \* checkpoint_data of the running process
    run,          \* the running process: its position and the locals of the traversal
    requests,     \* page numbers requested by the current traversal, in order
    handled,      \* page numbers whose rows the current traversal extracted, in order
    runs,         \* number of processes started so far
    mgr,          \* the last call on the CheckpointManager: its arguments and how it ended
    \* RecordParser
    doc,              \* the record being parsed: rows of its two charge tables
    charges,          \* the list charges
    modified_data,    \* the rows returned by _parse_modified_charges_regex
    matched_indices,  \* the set matched_indices of the merge loop
    mod_idx,          \* position of the merge loop in modified_data, from 1
    parser,           \* position of the parser
    \* run_coordinated_worker
    wk,               \* worker_id -> the session: its position, its page, the pages it got
    \* transport
    conn,             \* the running call of ensure_connection: its arguments and locals
    \* records of one result page
    rec               \* the rows loop of get_records and the Record.get call inside it

coordVars == <<pages, workers, now, initPending, last, handouts>>

pageVars == <<srv, file, ckpt, run, requests, handled, runs, mgr>>

parserVars == <<doc, charges, modified_data, matched_indices, mod_idx, parser>>

fetchVars == <<conn, rec>>

vars ==
    <<pages, workers, now, initPending, last, handouts,
      srv, file, ckpt, run, requests, handled, runs, mgr,
      doc, charges, modified_data, matched_indices, mod_idx, parser, wk, conn, rec>>

(***************************************************************************)
(* Table rows.                                                             *)
(***************************************************************************)
\* INSERT ... INTO pages (search_type, page_number): the column defaults
NewPageRow ==
    [status |-> "pending", worker_id |-> NULL, assigned_at |-> NullTime,
     completed_at |-> NullTime, retry_count |-> DefaultCount]

\* socket.gethostname() of the machine the worker runs on
HostOf(w) == "host-" \o w

\* INSERT OR REPLACE INTO workers: a whole new row, pages_completed at its default
NewWorkerRow(w, hostname, t) ==
    [hostname |-> hostname, last_heartbeat |-> t,
     pages_completed |-> DefaultCount, status |-> "active"]

PageNumbers(c) == DOMAIN pages[c]

Call(op, result) == [op |-> op, result |-> result]

\* no page was returned by get_next_page yet
NoneReturned == [x \in {} |-> 0]

\* how often get_next_page returned page p of search type c so far
TimesReturned(c, p) == IF <<c, p>> \in DOMAIN handouts THEN handouts[<<c, p>>] ELSE 0

\* one more return of x = (search_type, page_number)
Count(r, x) ==
    [y \in DOMAIN r \cup {x} |->
        IF y = x THEN (IF x \in DOMAIN r THEN r[x] ELSE 0) + 1 ELSE r[y]]

(***************************************************************************)
(* initialize_pages: SELECT COUNT, then (in a transaction of its own)   *)
(* INSERT OR IGNORE of the rows 1..total_pages.                            *)
(***************************************************************************)
\* mutant: the COUNT sees only the rows still pending
CountPendingPages(c) == Cardinality({i \in DOMAIN pages[c] : pages[c][i].status = "pending"})

\* SELECT COUNT FROM pages WHERE search_type = ?
CountPages(c) == Len(pages[c])

\* INSERT OR IGNORE of (c, 1) .. (c, n): rows already there are kept
InsertOrIgnore(rows, n) ==
    [i \in 1..(IF n > Len(rows) THEN n ELSE Len(rows)) |->
        IF i <= Len(rows) THEN rows[i] ELSE NewPageRow]

\* the search types that have rows, or an initialize_pages call about to insert them
TypesInUse == {c \in SearchTypes : CountPages(c) > 0} \cup {x[1] : x \in initPending}

InitializeCount(c, n) ==
    /\ IF CountPages(c) = 0
       THEN /\ Cardinality(initPending) < MaxInits
            /\ c \in TypesInUse \/ Cardinality(TypesInUse) < MaxTypes
            /\ initPending' = initPending \cup {<<c, n>>}
       ELSE UNCHANGED initPending
    /\ last' = Call("initialize_pages", CountPages(c))
    /\ UNCHANGED <<pages, workers, now, handouts>>

InitializeInsert(c, n) ==
    /\ <<c, n>> \in initPending
    /\ pages' = [pages EXCEPT ![c] = InsertOrIgnore(pages[c], n)]
    /\ initPending' = initPending \ {<<c, n>>}
    /\ last' = Call("initialize_insert", n)
    /\ UNCHANGED <<workers, now, handouts>>

(***************************************************************************)
(* register_worker                                                         *)
(***************************************************************************)
RegisterWorker(w) ==
    /\ workers' = [x \in DOMAIN workers \cup {w} |->
                     IF x = w THEN NewWorkerRow(w, HostOf(w), now) ELSE workers[x]]
    /\ last' = Call("register_worker", NoPage)
    /\ UNCHANGED <<pages, now, initPending, handouts>>

(***************************************************************************)
(* get_next_page: one BEGIN EXCLUSIVE transaction.                         *)
(***************************************************************************)
\* datetime(assigned_at, '+30 minutes') < datetime('now'); NULL compares false
LeaseExpired(row, t) ==
    /\ row.assigned_at # NullTime
    /\ row.assigned_at + LeaseMinutes < t

\* mutant: the reclaiming UPDATE without its retry_count condition
AbandonedNoRetryLimit(row, t) ==
    /\ row.status = "assigned"
    /\ row.assigned_at # NullTime
    /\ row.assigned_at + LeaseMinutes < t

\* the reclaiming UPDATE without its status condition
AbandonedAnyStatus(row, t) ==
    /\ LeaseExpired(row, t)
    /\ row.retry_count < MaxRetries

\* the WHERE clause of the reclaiming UPDATE
Abandoned(row, t) ==
    /\ row.status = "assigned"
    /\ LeaseExpired(row, t)
    /\ row.retry_count < MaxRetries

\* mutant: the reclaiming UPDATE forgets to count the retry
ReclaimRowNoCount(row) == [row EXCEPT !.status = "pending", !.worker_id = NULL]

\* the reclaiming UPDATE without worker_id = NULL
ReclaimRowKeepOwner(row) ==
    [row EXCEPT !.status = "pending", !.retry_count = row.retry_count + 1]

\* SET status = 'pending', worker_id = NULL, retry_count = retry_count + 1
ReclaimRow(row) ==
    [row EXCEPT !.status = "pending", !.worker_id = NULL,
                !.retry_count = row.retry_count + 1]

\* get_next_page without its reclaiming UPDATE
NoReclaim(rows, t) == rows

\* the reclaiming UPDATE over the rows of one search_type
Reclaim(rows, t) ==
    [i \in DOMAIN rows |-> IF Abandoned(rows[i], t) THEN ReclaimRow(rows[i]) ELSE rows[i]]

\* mutant: the SELECT takes any row that is not completed
OpenPages(rows) == {i \in DOMAIN rows : rows[i].status # "completed"}

\* SELECT page_number ... WHERE status = 'pending' ORDER BY page_number LIMIT 1
PendingPages(rows) == {i \in DOMAIN rows : rows[i].status = "pending"}

\* mutant: ORDER BY page_number DESC
Highest(S) == CHOOSE i \in S : \A j \in S : i >= j

\* the first row of the table whatever its status
NextUnfiltered(rows) == IF rows = <<>> THEN NoPage ELSE 1

\* ORDER BY page_number LIMIT 1
Lowest(S) == CHOOSE i \in S : \A j \in S : i <= j

NextPending(rows) == IF PendingPages(rows) = {} THEN NoPage ELSE Lowest(PendingPages(rows))

\* SET status = 'assigned', worker_id = ?, assigned_at = datetime('now')
AssignRow(row, w, t) ==
    [row EXCEPT !.status = "assigned", !.worker_id = w, !.assigned_at = t]

\* the value get_next_page returns in the current state
NextPageFor(c) == NextPending(Reclaim(pages[c], now))

GetNextPage(c, w) ==
    LET swept  == Reclaim(pages[c], now)
        result == NextPending(swept)
    IN  /\ IF result # NoPage
           THEN pages' = [pages EXCEPT ![c] =
                             [swept EXCEPT ![result] = AssignRow(swept[result], w, now)]]
           ELSE pages' = pages
        /\ handouts' = IF result # NoPage THEN Count(handouts, <<c, result>>) ELSE handouts
        /\ last' = Call("get_next_page", result)
        /\ UNCHANGED <<workers, now, initPending>>

(***************************************************************************)
(* mark_page_complete                                                      *)
(***************************************************************************)
\* mutant: the UPDATE without its worker_id condition
OwnedByAnyone(c, p, w) == p \in PageNumbers(c)

\* WHERE search_type = ? AND page_number = ? AND worker_id = ?
OwnedBy(c, p, w) == p \in PageNumbers(c) /\ pages[c][p].worker_id = w

\* SET status = 'completed', completed_at = datetime('now')
CompleteRow(row, t) == [row EXCEPT !.status = "completed", !.completed_at = t]

\* UPDATE workers SET pages_completed = pages_completed + 1, last_heartbeat = now
CreditWorker(row, t) ==
    [row EXCEPT !.pages_completed = row.pages_completed + 1, !.last_heartbeat = t]

\* the two UPDATE statements of mark_page_complete and its commit
mark_page_complete(c, p, w) ==
    /\ pages' = IF OwnedBy(c, p, w)
                THEN [pages EXCEPT ![c][p] = CompleteRow(pages[c][p], now)]
                ELSE pages
    /\ workers' = IF w \in DOMAIN workers
                  THEN [workers EXCEPT ![w] = CreditWorker(workers[w], now)]
                  ELSE workers
    /\ last' = Call("mark_page_complete", p)
    /\ UNCHANGED <<now, initPending, handouts>>

\* mark_page_complete called by anyone, for any page
MarkPageComplete(c, p, w) ==
    /\ w \in DOMAIN workers => workers[w].pages_completed < MaxCompleted
    /\ mark_page_complete(c, p, w)

(***************************************************************************)
(* Time passes.                                                            *)
(***************************************************************************)
Tick(limit, minutes) ==
    /\ now < limit * minutes
    /\ now' = now + minutes
    /\ last' = Call("tick", NoPage)
    /\ UNCHANGED <<pages, workers, initPending, handouts>>

\* init_database on a fresh file: both tables empty
CoordInit ==
    /\ pages = [c \in SearchTypes |-> <<>>]
    /\ workers = <<>>
    /\ now = 0
    /\ initPending = {}
    /\ last = Call("init_database", NoPage)
    /\ handouts = NoneReturned

(***************************************************************************)
(* run_coordinated_worker: a worker session against a ledger that          *)
(* initialize_pages has filled.  Navigating to the page, processing it and *)
(* storing its records is one step that succeeds or raises; time passes    *)
(* while a worker works.                                                   *)
(***************************************************************************)
\* raised: the last pass through the loop body ended in the except branch
NewSession(c) ==
    [pc |-> "new", search_type |-> c, page_number |-> NoPage, got |-> <<>>,
     raised |-> FALSE]

\* coordinator.register_worker(worker_id, hostname), lines 229-247
WorkerStart(w) ==
    /\ wk[w].pc = "new"
    /\ RegisterWorker(w)
    /\ wk' = [wk EXCEPT ![w].pc = "loop"]

\* a loop that asks again when get_next_page returns None
WorkerNextPageAsksAgain(w) ==
    /\ wk[w].pc = "loop"
    /\ GetNextPage(wk[w].search_type, w)
    /\ LET page_number == NextPageFor(wk[w].search_type)
       IN  wk' = IF page_number = NoPage
                 THEN [wk EXCEPT ![w].raised = FALSE]
                 ELSE [wk EXCEPT ![w].pc = "work", ![w].page_number = page_number,
                                 ![w].got = Append(wk[w].got, page_number),
                                 ![w].raised = FALSE]

\* page_number = coordinator.get_next_page(search_type, worker_id); break on None
WorkerNextPage(w) ==
    /\ wk[w].pc = "loop"
    /\ GetNextPage(wk[w].search_type, w)
    /\ LET page_number == NextPageFor(wk[w].search_type)
       IN  wk' = IF page_number = NoPage
                 THEN [wk EXCEPT ![w].pc = "ended", ![w].raised = FALSE]
                 ELSE [wk EXCEPT ![w].pc = "work", ![w].page_number = page_number,
                                 ![w].got = Append(wk[w].got, page_number),
                                 ![w].raised = FALSE]

\* the try block went through: mark_page_complete, then the next iteration
WorkerPageDone(w) ==
    /\ wk[w].pc = "work"
    /\ mark_page_complete(wk[w].search_type, wk[w].page_number, w)
    /\ wk' = [wk EXCEPT ![w].pc = "loop"]

\* an exception that leaves the loop and ends the worker
WorkerPageErrorEnds(w) ==
    /\ wk[w].pc = "work"
    /\ wk' = [wk EXCEPT ![w].pc = "ended", ![w].raised = TRUE]
    /\ UNCHANGED coordVars

\* except Exception: the page is not marked; the next iteration
WorkerPageError(w) ==
    /\ wk[w].pc = "work"
    /\ wk' = [wk EXCEPT ![w].pc = "loop", ![w].raised = TRUE]
    /\ UNCHANGED coordVars

\* the worker process dies
WorkerCrash(w) ==
    /\ wk[w].pc \in {"loop", "work"}
    /\ wk' = [wk EXCEPT ![w].pc = "crashed"]
    /\ UNCHANGED coordVars

\* time passes while some worker runs
WorkerTick ==
    /\ \E w \in WorkerIds : wk[w].pc \in {"loop", "work"}
    /\ Tick(MaxTicksWork, TickMinutesLong)
    /\ UNCHANGED wk

\* no worker session
WorkersOff == wk = [w \in WorkerIds |-> NewSession(NULL)]

\* a ledger of n pending pages of search type c, and the workers about to start
WorkersInit(c, n) ==
    /\ pages = [x \in SearchTypes |-> IF x = c THEN InsertOrIgnore(<<>>, n) ELSE <<>>]
    /\ workers = <<>>
    /\ now = 0
    /\ initPending = {}
    /\ last = Call("initialize_insert", n)
    /\ handouts = NoneReturned
    /\ wk = [w \in WorkerIds |-> NewSession(c)]

(***************************************************************************)
(* The listing server, as the traversal sees it.  A response is identified *)
(* by the page number its pager shows as <span>N</span>; NoMarker is a     *)
(* response without such a span.  The listing does not change during a     *)
(* behaviour.                                                              *)
(***************************************************************************)
\* a test for any page marker at all
HasAnyMarker(shown, page) == shown # NoMarker

\* f'<span>{page}</span>' in resp.text
HasMarker(shown, page) == shown = page

\* the response to the initial search POST
FirstResponse == IF srv.total >= 1 THEN 1 ELSE NoMarker

\* the responses to a postback whose target is the control that follows
\* <span>marker</span> in the response showing page `shown`: the next page when
\* that control exists; otherwise text.find returns -1, the target is whatever
\* the slices pick up, and the server may answer with any page or an error page
Responses(shown, marker) ==
    IF HasMarker(shown, marker) /\ marker < srv.total
    THEN {marker + 1}
    ELSE {NoMarker} \cup 1..srv.total

(***************************************************************************)
(* CheckpointManager (src/checkpoint.py)                                   *)
(***************************************************************************)
DefaultEntry ==
    [last_page |-> 0, last_href |-> NoHref, completed |-> FALSE, total_processed |-> 0]

DefaultCheckpoint == [c \in SearchTypes |-> DefaultEntry]

\* json.dump of one value: a JSON number, string, true, false or null
json_number(n) == <<"number", n>>

json_bool(b) == IF b THEN <<"true">> ELSE <<"false">>

\* last_href is None or the href string of a row
json_href(h) == IF h = NoHref THEN <<"null">> ELSE <<"string", h>>

\* json.load of one value
from_json(v) ==
    CASE v[1] = "null"  -> NoHref
      [] v[1] = "true"  -> TRUE
      [] v[1] = "false" -> FALSE
      [] OTHER          -> v[2]

\* a document that keeps the default last_href whatever it was given
json_dump_without_href(d) ==
    [c \in DOMAIN d |->
        [last_page       |-> json_number(d[c].last_page),
         last_href       |-> json_href(NoHref),
         completed       |-> json_bool(d[c].completed),
         total_processed |-> json_number(d[c].total_processed)]]

\* json.dump(self.checkpoint_data, f): the document written
json_dump(d) ==
    [c \in DOMAIN d |->
        [last_page       |-> json_number(d[c].last_page),
         last_href       |-> json_href(d[c].last_href),
         completed       |-> json_bool(d[c].completed),
         total_processed |-> json_number(d[c].total_processed)]]

\* json.load(f) of a document that json.dump wrote
json_load(text) ==
    [c \in DOMAIN text |->
        [last_page       |-> from_json(text[c].last_page),
         last_href       |-> from_json(text[c].last_href),
         completed       |-> from_json(text[c].completed),
         total_processed |-> from_json(text[c].total_processed)]]

\* os.path.exists(self.checkpoint_file) is false
NoFile == [exists |-> FALSE, valid |-> FALSE, data |-> json_dump(DefaultCheckpoint)]

\* a file that is there and that json.load cannot decode
Unreadable == [exists |-> TRUE, valid |-> FALSE, data |-> json_dump(DefaultCheckpoint)]

\* the default whatever the file holds
load_default(f) == DefaultCheckpoint

load_checkpoint(f) ==
    IF f.exists /\ f.valid THEN json_load(f.data) ELSE DefaultCheckpoint

\* what the file holds after save_checkpoint of the data d
save_checkpoint(d) == [exists |-> TRUE, valid |-> TRUE, data |-> json_dump(d)]

\* the progress of the page before the one given
update_previous_page(d, st, page, href, total) ==
    [d EXCEPT ![st].last_page = page - 1, ![st].last_href = href,
              ![st].total_processed = total]

\* update_search_progress: the in-memory data afterwards
update_search_progress(d, st, page, href, total) ==
    [d EXCEPT ![st].last_page = page, ![st].last_href = href,
              ![st].total_processed = total]

\* no save on progress at all
SaveNever(page) == FALSE

\* a save on every progress update
SaveAlways(page) == TRUE

\* if page % 10 == 0: self.save_checkpoint()
SaveDue(page) == page % SaveEvery = 0

\* mark_search_complete: the in-memory data afterwards (it is saved at once)
\* a completion that leaves the flag down
mark_search_incomplete(d, st) == [d EXCEPT ![st].completed = FALSE]

mark_search_complete(d, st) == [d EXCEPT ![st].completed = TRUE]

should_skip_search(d, st) == d[st].completed

get_resume_page(d, st) == d[st].last_page

(***************************************************************************)
(* The crawler process: docket.py's main loop over the search types, with  *)
(* Search.get_records or get_records_with_checkpoint as the traversal.     *)
(***************************************************************************)
\* max_records = DEBUG_LIMIT if DEBUGGING else (RECORD_LIMIT if LIMIT_RECORDS else inf)
max_records ==
    IF DEBUGGING THEN DEBUG_LIMIT ELSE IF LIMIT_RECORDS THEN RECORD_LIMIT ELSE NoLimit

\* count < max_records
BelowLimit(count) == max_records = NoLimit \/ count < max_records

\* the rows loop of get_records: count += 1 per row until the limit
CountAfterRows(count, rows) ==
    IF max_records # NoLimit /\ count + rows > max_records
    THEN max_records ELSE count + rows

\* the rows loop of get_records_with_checkpoint (its limit applies when DEBUGGING)
CountAfterRowsCheckpoint(count, rows) ==
    IF DEBUGGING /\ count + rows > DebugStop
    THEN (IF count > DebugStop THEN count ELSE DebugStop)
    ELSE count + rows

\* a_href of the last row of the page (the rows of page p are identified by p)
LastHref(page, rows, before) == IF rows > 0 THEN page ELSE before

\* the marker of the page being replayed itself
ReplayMarkerSamePage(skip_page) == skip_page

\* span_tag = f'<span>{skip_page-1}</span>' in the replay loop
ReplayMarker(skip_page) == skip_page - 1

\* Every response of the server carries hidden state fields of its own.
\* The responses of one traversal are numbered in the order they are
\* received: the search form loaded by main is number 0, the answer to the
\* n-th listing request is number n.
FormPage == 0

\* no postback target
NoTarget == <<>>

\* no payload
NoPayload == [__VIEWSTATE |-> NULL, __EVENTTARGET |-> NoTarget]

\* Page.get_payload('search', text): the hidden fields read from text
get_payload(text) == [__VIEWSTATE |-> text, __EVENTTARGET |-> NoTarget]

\* next_page: the id of the control that follows <span>marker</span> in text
next_page(text, marker) == <<text, marker>>

\* the payload variable is left as it is
KeepPayload(payload, text) == payload

\* payload = self.page.get_payload('search', resp.text)
Refresh(payload, text) == get_payload(text)

\* payload | {'__EVENTTARGET': next_page}
Postback(payload, text, marker) ==
    [payload EXCEPT !.__EVENTTARGET = next_page(text, marker)]

RunOff ==
    [pc |-> "off", mode |-> NULL, search_type |-> NULL, todo |-> <<>>,
     page |-> 0, skip_page |-> 0, start_page |-> 0, resp |-> NoMarker,
     count |-> 0, last_href |-> NoHref,
     serial |-> FormPage, payload |-> NoPayload, posted |-> NoPayload]

\* python docket.py: CheckpointManager() loads the file; the listing on the
\* server is the one of the day of the run
StartProcess ==
    /\ run.pc = "off"
    /\ runs < MaxRuns
    /\ runs' = runs + 1
    /\ \E total \in 0..MaxResultPages : srv' = [srv EXCEPT !.total = total]
    /\ ckpt' = load_checkpoint(file)
    /\ run' = [RunOff EXCEPT !.pc = "main", !.todo = <<"pending", "conviction">>]
    /\ UNCHANGED <<file, requests, handled>>

\* if checkpoint_manager.should_skip_search(search_type): continue
SkipSearch ==
    /\ run.pc = "main" /\ run.todo # <<>>
    /\ should_skip_search(ckpt, Head(run.todo))
    /\ run' = [run EXCEPT !.todo = Tail(run.todo)]
    /\ UNCHANGED <<srv, file, ckpt, requests, handled, runs>>

\* Search.get_records: page = 1, count = 0
BeginGetRecords ==
    /\ run.pc = "main" /\ run.todo # <<>>
    /\ ~should_skip_search(ckpt, Head(run.todo))
    /\ run' = [run EXCEPT !.pc = "first", !.mode = "get_records",
                          !.search_type = Head(run.todo), !.page = 1,
                          !.serial = FormPage, !.payload = get_payload(FormPage)]
    /\ requests' = <<>>
    /\ handled' = <<>>
    /\ UNCHANGED <<srv, file, ckpt, runs>>

\* get_records_with_checkpoint: start_page from the checkpoint
BeginWithCheckpoint ==
    /\ run.pc = "main" /\ run.todo # <<>>
    /\ ~should_skip_search(ckpt, Head(run.todo))
    /\ LET st    == Head(run.todo)
           start == get_resume_page(ckpt, st)
       IN  run' = [run EXCEPT !.pc = "first", !.mode = "with_checkpoint",
                              !.search_type = st, !.start_page = start,
                              !.page = IF start > 0 THEN start ELSE 1,
                              !.serial = FormPage, !.payload = get_payload(FormPage)]
    /\ requests' = <<>>
    /\ handled' = <<>>
    /\ UNCHANGED <<srv, file, ckpt, runs>>

\* count before the while loop
InitialCount ==
    IF run.mode = "with_checkpoint" THEN ckpt[run.search_type].total_processed ELSE 0

\* the initial search POST
FetchFirst ==
    /\ run.pc = "first"
    /\ requests' = <<1>>
    /\ IF run.mode = "with_checkpoint" /\ run.start_page > 1
       THEN run' = [run EXCEPT !.pc = "replay", !.skip_page = 2, !.resp = FirstResponse,
                               !.serial = run.serial + 1, !.posted = run.payload]
       ELSE run' = [run EXCEPT !.pc = "loop", !.resp = FirstResponse,
                               !.count = InitialCount,
                               !.serial = run.serial + 1, !.posted = run.payload]
    /\ UNCHANGED <<srv, file, ckpt, handled, runs>>

\* one iteration of: for skip_page in range(2, start_page + 1)
Replay ==
    /\ run.pc = "replay"
    /\ \E r \in Responses(run.resp, ReplayMarker(run.skip_page)) :
          LET payload == Refresh(run.payload, run.serial)
              sent    == Postback(payload, run.serial, ReplayMarker(run.skip_page))
              got     == [run EXCEPT !.resp = r, !.serial = run.serial + 1,
                                     !.payload = payload, !.posted = sent]
          IN  run' = IF run.skip_page = run.start_page
                     THEN [got EXCEPT !.pc = "loop", !.count = InitialCount]
                     ELSE [got EXCEPT !.skip_page = run.skip_page + 1]
    /\ requests' = Append(requests, ReplayMarker(run.skip_page) + 1)
    /\ UNCHANGED <<srv, file, ckpt, handled, runs>>

\* get_records: the while test and the body up to the limit test
LoopGetRecords ==
    /\ run.pc = "loop" /\ run.mode = "get_records"
    /\ IF HasMarker(run.resp, run.page) /\ BelowLimit(run.count)
       THEN LET count == CountAfterRows(run.count, srv.rows)
            IN  /\ handled' = Append(handled, run.page)
                /\ run' = [run EXCEPT !.count = count,
                              !.pc = IF BelowLimit(count) THEN "advance" ELSE "done"]
       ELSE /\ run' = [run EXCEPT !.pc = "done"]
            /\ UNCHANGED handled
    /\ UNCHANGED <<srv, file, ckpt, requests, runs>>

\* get_records_with_checkpoint: the while test and the body up to the
\* checkpoint update, or mark_search_complete when the loop ends
LoopWithCheckpoint ==
    /\ run.pc = "loop" /\ run.mode = "with_checkpoint"
    /\ LET st == run.search_type
       IN  IF HasMarker(run.resp, run.page)
           THEN IF DEBUGGING /\ run.count >= DebugStop
                THEN /\ ckpt' = update_search_progress(ckpt, st, run.page,
                                                        run.last_href, run.count)
                     /\ file' = IF SaveDue(run.page) THEN save_checkpoint(ckpt') ELSE file
                     /\ run' = [run EXCEPT !.pc = "done"]
                     /\ UNCHANGED handled
                ELSE LET count == CountAfterRowsCheckpoint(run.count, srv.rows)
                         href  == LastHref(run.page, srv.rows, run.last_href)
                     IN  /\ handled' = Append(handled, run.page)
                         /\ ckpt' = update_search_progress(ckpt, st, run.page, href, count)
                         /\ file' = IF SaveDue(run.page) THEN save_checkpoint(ckpt') ELSE file
                         /\ run' = [run EXCEPT !.pc = "advance", !.count = count,
                                               !.last_href = href]
           ELSE /\ ckpt' = mark_search_complete(ckpt, st)
                /\ file' = save_checkpoint(ckpt')
                /\ run' = [run EXCEPT !.pc = "done"]
                /\ UNCHANGED handled
    /\ UNCHANGED <<srv, requests, runs>>

\* the postback for the next page, then page += 1
Advance ==
    /\ run.pc = "advance"
    /\ \E r \in Responses(run.resp, run.page) :
          LET payload == Refresh(run.payload, run.serial)
              sent    == Postback(payload, run.serial, run.page)
          IN  run' = [run EXCEPT !.pc = "loop", !.resp = r, !.page = run.page + 1,
                                 !.serial = run.serial + 1,
                                 !.payload = payload, !.posted = sent]
    /\ requests' = Append(requests, run.page + 1)
    /\ UNCHANGED <<srv, file, ckpt, handled, runs>>

\* return results: back in the loop over the search types
Return ==
    /\ run.pc = "done"
    /\ run' = [RunOff EXCEPT !.pc = "main", !.todo = Tail(run.todo)]
    /\ UNCHANGED <<srv, file, ckpt, requests, handled, runs>>

\* the process ends after the last search type
Exit ==
    /\ run.pc = "main" /\ run.todo = <<>>
    /\ run' = RunOff
    /\ ckpt' = DefaultCheckpoint
    /\ UNCHANGED <<srv, file, requests, handled, runs>>

\* the process dies: its memory is lost, the checkpoint file stays
Crash ==
    /\ run.pc \notin {"off", "main"}
    /\ run' = RunOff
    /\ ckpt' = DefaultCheckpoint
    /\ UNCHANGED <<srv, file, requests, handled, runs>>

\* no call was made on the CheckpointManager yet
NoOp ==
    [op |-> "none", search_type |-> NULL, page |-> 0, href |-> NoHref, total |-> 0,
     answer |-> NULL, write |-> "none", outcome |-> "returned", failed |-> 0,
     calls |-> 0]

\* no crawler process, no checkpoint file, a listing of `total` pages
PageStart(total, rows, f) ==
    /\ srv = [total |-> total, rows |-> rows]
    /\ file = f
    /\ ckpt = DefaultCheckpoint
    /\ run = RunOff
    /\ requests = <<>>
    /\ handled = <<>>
    /\ runs = 0
    /\ mgr = NoOp

\* before the first run there is no checkpoint file, or one left unreadable
PageInit == \E rows \in RowChoices, f \in {NoFile, Unreadable} : PageStart(0, rows, f)

\* the crawler is not run
PageOff == PageStart(0, 0, NoFile)
(***************************************************************************)
(* The CheckpointManager under arbitrary calls of its operations, over a   *)
(* file system whose writes can fail (checkpoint.py).                      *)
(***************************************************************************)

\* arguments of update_search_progress
PageArgs == {0, 9, 10, 11}
HrefArgs == {NoHref, 1}
TotalArgs == {0, 7}

\* what the user types at the prompt of reset
Answers == {"y", "Y", "n", "yes", ""}

\* the answer as typed
keep_case(answer) == answer

\* str.lower
lower(answer) == IF answer = "Y" THEN "y" ELSE answer

\* a write of the checkpoint file: it succeeds, open() raises and the file
\* is as before, or json.dump raises after open(..., 'w') truncated the file
WriteOutcomes == {"ok", "open_raises", "dump_raises"}

\* with open(self.checkpoint_file, 'w') as f: json.dump(...)
try_write(f, d, w) ==
    CASE w = "ok"          -> save_checkpoint(d)
      [] w = "open_raises" -> f
      [] w = "dump_raises" -> Unreadable

\* an except clause that lets the error of the write through
except_raise(w) == IF w = "ok" THEN "returned" ELSE "raised"

\* except Exception as e: cprint(...)
except_print(w) == "returned"

\* the record of a call that attempted the write w (or none)
Called(op, w) ==
    [NoOp EXCEPT !.op = op, !.write = w,
                 !.outcome = IF w = "none" THEN "returned" ELSE except_print(w),
                 !.failed = mgr.failed + (IF w \in {"open_raises", "dump_raises"} THEN 1 ELSE 0),
                 !.calls = mgr.calls + 1]

\* checkpoint_manager.update_search_progress(search_type, page, last_href, total)
ManagerUpdate(c, page, href, total, w) ==
    /\ mgr.calls < MaxCalls
    /\ ckpt' = update_search_progress(ckpt, c, page, href, total)
    /\ file' = IF SaveDue(page) THEN try_write(file, ckpt', w) ELSE file
    /\ mgr' = [Called("update_search_progress", IF SaveDue(page) THEN w ELSE "none")
                 EXCEPT !.search_type = c, !.page = page, !.href = href, !.total = total]

\* checkpoint_manager.mark_search_complete(search_type)
ManagerMarkComplete(c, w) ==
    /\ mgr.calls < MaxCalls
    /\ ckpt' = mark_search_complete(ckpt, c)
    /\ file' = try_write(file, ckpt', w)
    /\ mgr' = [Called("mark_search_complete", w) EXCEPT !.search_type = c]

\* checkpoint_manager.reset(), the user typing the answer
ManagerReset(answer) ==
    /\ mgr.calls < MaxCalls
    /\ IF lower(answer) = "y"
       THEN /\ file' = NoFile
            /\ ckpt' = load_checkpoint(file')
       ELSE UNCHANGED <<file, ckpt>>
    /\ mgr' = [Called("reset", "none") EXCEPT !.answer = answer]

\* CheckpointManager() of a new process: load_checkpoint
ManagerNew ==
    /\ mgr.calls < MaxCalls
    /\ ckpt' = load_checkpoint(file)
    /\ file' = file
    /\ mgr' = Called("load_checkpoint", "none")

(***************************************************************************)
(* Specifications.                                                         *)
(***************************************************************************)
\* a coordinator operation: the crawler process of docket.py takes no part
(***************************************************************************)
(* RecordParser (src/record_parser.py): the charges of a conviction        *)
(* record.  The main table is a sequence of rows; of a row's markup the    *)
(* parser sees its <td> cells in order, whether it holds a                 *)
(* <B>Sentenced:</B> text, and whether it closes with </tr></span> (the    *)
(* defect of the site) or with a plain </tr>.  A python dict is a function *)
(* whose domain is the set of its keys; the keys 'Offense Date',           *)
(* 'Verdict Finding', 'Verdict Date' and 'Fee(s)' are written              *)
(* Offense_Date, Verdict_Finding, Verdict_Date and Fees.                   *)
(***************************************************************************)
StatuteTexts == {"53-21", "14-227"}

\* str.strip on the cell texts used here
strip(s) ==
    CASE s = "53-21 " -> "53-21"
      [] s = " 53-21" -> "53-21"
      [] s = " "      -> ""
      [] OTHER        -> s

LeadingSpace(s) == s \in {" 53-21", " "}

\* <td[^>]*>\s*(\d+[a-z]?-\d+[a-z]?)\s*</td>
statute_pattern(s) == strip(s) \in StatuteTexts

\* <td[^>]*>(\d+[a-z]?-\d+[a-z]?\s*)</td>
statute_cell_pattern(s) == strip(s) \in StatuteTexts /\ ~LeadingSpace(s)

RECURSIVE Sum(_)
Sum(seq) == IF seq = <<>> THEN 0 ELSE Head(seq) + Sum(Tail(seq))

\* statute_matches, as the number of matching cells of each row
statute_matches(rows) ==
    LET first  == [i \in DOMAIN rows |->
                      Cardinality({j \in DOMAIN rows[i].cells :
                                      statute_pattern(rows[i].cells[j])})]
        second == [i \in DOMAIN rows |->
                      Cardinality({j \in DOMAIN rows[i].cells :
                                      statute_cell_pattern(rows[i].cells[j])})]
    IN  IF Sum(first) < MinStatutes THEN second ELSE first

\* row_html = table_html[tr_start:tr_end]: up to the first </tr></span> that
\* follows the row's start, else up to the row's own </tr>
RowEnd(rows, i) ==
    LET closing == {j \in i..Len(rows) : rows[j].span_close}
    IN  IF closing = {} THEN i ELSE Lowest(closing)

RECURSIVE RegionCells(_, _, _)
RegionCells(rows, i, j) ==
    IF i > j THEN <<>> ELSE rows[i].cells \o RegionCells(rows, i + 1, j)

\* the cleaned cells, at most 11 of them
CleanCells(cells) ==
    [k \in 1..(IF Len(cells) < NumColumns THEN Len(cells) ELSE NumColumns) |->
        strip(cells[k])]

\* no padding at all
NoPad(cells) == cells

\* while len(cells) < 11: cells.append('')
Pad(cells) ==
    [k \in 1..(IF Len(cells) < NumColumns THEN NumColumns ELSE Len(cells)) |->
        IF k <= Len(cells) THEN cells[k] ELSE ""]

RowCells(rows, i) == Pad(CleanCells(RegionCells(rows, i, RowEnd(rows, i))))

\* re.search(r'<B>Sentenced:\s*</B>([^<]+)', row_html), stripped; NULL: no match
SentenceOf(rows, i) ==
    LET having == {k \in i..RowEnd(rows, i) : rows[k].sentence # NULL}
    IN  IF having = {} THEN NULL ELSE strip(rows[Lowest(having)].sentence)

\* the value as it is, whatever it is
KeepValue(v, d) == v

\* v or d
OrDefault(v, d) == IF v = "" THEN d ELSE v

\* cells[0] and, for a row with a statute, cells[1] .. cells[10]: IndexError
\* when the list is shorter
IndexError(cells) == Len(cells) = 0 \/ (cells[1] # "" /\ Len(cells) < NumColumns)

\* the charge dict of lines 288-305
NewCharge(cells, sentence) ==
    LET charge == [Statute         |-> strip(cells[1]),
                   Description     |-> strip(cells[2]),
                   Class           |-> strip(cells[3]),
                   Type            |-> strip(cells[4]),
                   Occ             |-> OrDefault(strip(cells[5]), "1"),
                   Offense_Date    |-> strip(cells[6]),
                   Plea            |-> strip(cells[7]),
                   Verdict_Finding |-> strip(cells[8]),
                   Verdict_Date    |-> strip(cells[9]),
                   Fine            |-> OrDefault(strip(cells[10]), "$0.00"),
                   Fees            |-> OrDefault(strip(cells[11]), "$0.00")]
    IN  IF sentence # NULL THEN charge @@ ("sentence_text" :> sentence) ELSE charge

\* the charges appended for the statute matches of row i
ChargesOfRow(rows, i, matches) ==
    IF matches = 0 \/ RowCells(rows, i)[1] = ""
    THEN <<>>
    ELSE [k \in 1..matches |-> NewCharge(RowCells(rows, i), SentenceOf(rows, i))]

RECURSIVE ChargesFrom(_, _)
ChargesFrom(rows, i) ==
    IF i > Len(rows) THEN <<>>
    ELSE ChargesOfRow(rows, i, statute_matches(rows)[i]) \o ChargesFrom(rows, i + 1)

_parse_charges_from_malformed_table(rows) == ChargesFrom(rows, 1)

\* some statute match leads to an IndexError
ParseRaises(rows) ==
    \E i \in DOMAIN rows : statute_matches(rows)[i] > 0 /\ IndexError(RowCells(rows, i))

\* if cells[0] and cells[0].strip() and cells[1] and cells[1].strip()
RealChargeRow(m) == strip(m.statute) # "" /\ strip(m.description) # ""

ModifiedCharge(m) ==
    [statute         |-> strip(m.statute),
     description     |-> strip(m.description),
     verdict_finding |-> strip(m.verdict_finding),
     verdict_date    |-> strip(m.verdict_date),
     fine            |-> OrDefault(strip(m.fine), "$0.00"),
     fees            |-> OrDefault(strip(m.fees), "$0.00")]

\* <tr class=grdRow><td colspan=11> </td></tr>, the row nested in the
\* unclosed span of a row with the defect
Filler ==
    [statute |-> " ", description |-> "", verdict_finding |-> "", verdict_date |-> "",
     fine |-> "", fees |-> "", defect |-> FALSE]

\* the rows of a parser that closes the table at the first misplaced </tr>:
\* nothing after the row with the defect
RECURSIVE truncated_rows(_)
truncated_rows(mods) ==
    IF mods = <<>> THEN <<>>
    ELSE IF Head(mods).defect THEN <<Head(mods)>>
    ELSE <<Head(mods)>> \o truncated_rows(Tail(mods))

\* re.finditer(row_pattern, mod_table_html): a row ends where the next
\* <tr class=grdRow|grdRowAlt begins, so a row with the defect is followed
\* by the row nested in its span; the cell of the defect is an empty span
RECURSIVE row_matches(_)
row_matches(mods) ==
    IF mods = <<>> THEN <<>>
    ELSE (IF Head(mods).defect THEN <<Head(mods), Filler>> ELSE <<Head(mods)>>)
         \o row_matches(Tail(mods))

RECURSIVE ModifiedCharges(_)
ModifiedCharges(rows) ==
    IF rows = <<>> THEN <<>>
    ELSE (IF RealChargeRow(Head(rows)) THEN <<ModifiedCharge(Head(rows))>> ELSE <<>>)
         \o ModifiedCharges(Tail(rows))

_parse_modified_charges_regex(mods) == ModifiedCharges(row_matches(mods))

\* dict.get(key, default)
Get(d, key, default) == IF key \in DOMAIN d THEN d[key] ELSE default

(***************************************************************************)
(* parse_conviction_charges and the standardisation of                     *)
(* parse_conviction_record, step by step.                                  *)
(***************************************************************************)
\* a table is found wherever there are rows
LocatedAnyway(d) == TRUE

\* table_match of the regex for id="cphBody_Datagrid1", or charges_table of
\* the BeautifulSoup fallback: the markup holds a table of that id
Located(d) == d.table

\* both tables are read from the raw markup; the merge loop is next
ParseTables ==
    /\ parser = "start"
    /\ IF Located(doc) /\ ParseRaises(doc.rows)
       THEN /\ parser' = "raised"
            /\ UNCHANGED <<charges, modified_data, mod_idx>>
       ELSE /\ charges' = IF Located(doc)
                          THEN _parse_charges_from_malformed_table(doc.rows)
                          ELSE <<>>
            /\ modified_data' = _parse_modified_charges_regex(doc.mods)
            /\ mod_idx' = 1
            /\ parser' = "merge"
    /\ UNCHANGED <<doc, matched_indices>>

\* every index outside matched_indices and inside it
NeverSkipped(charge_idx, matched) == TRUE

\* not: if charge_idx in matched_indices: continue
NotSkipped(charge_idx, matched) == charge_idx \notin matched

\* the charges the inner loop can stop at for the row mod
Matching(chs, matched, mod) ==
    {c \in DOMAIN chs :
        /\ NotSkipped(c, matched)
        /\ strip(Get(chs[c], "Statute", "")) = strip(Get(mod, "statute", ""))
        /\ strip(Get(chs[c], "Description", "")) = strip(Get(mod, "description", ""))}

\* an update that takes the finding of the row and nothing else
ApplyFindingOnly(charge, mod) ==
    [is_modified               |-> TRUE,
     modified_sentence_finding |-> Get(mod, "verdict_finding", ""),
     modified_sentence_date    |-> "",
     modified_fine             |-> "",
     modified_fees             |-> ""] @@ charge

\* lines 145-149
ApplyModified(charge, mod) ==
    [is_modified               |-> TRUE,
     modified_sentence_finding |-> Get(mod, "verdict_finding", ""),
     modified_sentence_date    |-> Get(mod, "verdict_date", ""),
     modified_fine             |-> Get(mod, "fine", ""),
     modified_fees             |-> Get(mod, "fees", "")] @@ charge

\* one iteration of: for mod_idx, mod in enumerate(modified_data)
MergeRow ==
    /\ parser = "merge"
    /\ mod_idx <= Len(modified_data)
    /\ LET mod   == modified_data[mod_idx]
           found == Matching(charges, matched_indices, mod)
       IN  IF found = {}
           THEN UNCHANGED <<charges, matched_indices>>
           ELSE /\ charges' = [charges EXCEPT ![Lowest(found)] =
                                  ApplyModified(charges[Lowest(found)], mod)]
                /\ matched_indices' = matched_indices \cup {Lowest(found)}
    /\ mod_idx' = mod_idx + 1
    /\ UNCHANGED <<doc, modified_data, parser>>

\* the setdefault calls of lines 164-178
RequiredDefaults ==
    [Class |-> "", Type |-> "", Occ |-> "1", Offense_Date |-> "", Plea |-> "",
     Verdict_Finding |-> "", Verdict_Date |-> "", Fine |-> "$0.00", Fees |-> "$0.00",
     sentence_text |-> NULL, is_modified |-> FALSE,
     modified_sentence_finding |-> "", modified_sentence_date |-> "",
     modified_fine |-> "", modified_fees |-> ""]

EnsureCharge(charge, i) == (("charge_index" :> i) @@ charge) @@ RequiredDefaults

\* Ensure all charges have required fields; parse_conviction_charges returns
EnsureFields ==
    /\ parser = "merge"
    /\ mod_idx > Len(modified_data)
    /\ charges' = [i \in DOMAIN charges |-> EnsureCharge(charges[i], i - 1)]
    /\ parser' = "ensured"
    /\ UNCHANGED <<doc, modified_data, matched_indices, mod_idx>>

\* standardized_charge of parse_conviction_record
StandardizedCharge(charge) ==
    [statute                   |-> Get(charge, "Statute", ""),
     description               |-> Get(charge, "Description", ""),
     class                     |-> Get(charge, "Class", ""),
     type                      |-> Get(charge, "Type", ""),
     offense_date              |-> Get(charge, "Offense_Date", ""),
     verdict_date              |-> Get(charge, "Verdict_Date", ""),
     occ                       |-> Get(charge, "Occ", "1"),
     plea                      |-> Get(charge, "Plea", ""),
     verdict_finding           |-> Get(charge, "Verdict_Finding", ""),
     fine                      |-> Get(charge, "Fine", "$0.00"),
     fees                      |-> Get(charge, "Fees", "$0.00"),
     charge_index              |-> Get(charge, "charge_index", 0),
     is_modified               |-> Get(charge, "is_modified", FALSE),
     modified_sentence_finding |-> Get(charge, "modified_sentence_finding", ""),
     modified_sentence_date    |-> Get(charge, "modified_sentence_date", ""),
     modified_fine             |-> Get(charge, "modified_fine", ""),
     modified_fees             |-> Get(charge, "modified_fees", ""),
     sentence_text             |-> Get(charge, "sentence_text", "")]

\* Standardize the charge keys to lowercase
Standardize ==
    /\ parser = "ensured"
    /\ charges' = [i \in DOMAIN charges |-> StandardizedCharge(charges[i])]
    /\ parser' = "done"
    /\ UNCHANGED <<doc, modified_data, matched_indices, mod_idx>>

(***************************************************************************)
(* The records given to the parser.                                        *)
(***************************************************************************)
\* (statute cell, description cell) of the rows used for reconciliation
ChargeKeys == {<<"53-21 ", "d1">>, <<"53-21", "d2">>, <<"14-227", "d2">>}

\* a row of the main table with all its columns
FullRow(key) ==
    [cells |-> <<key[1], key[2], "C", "M", "1", "1/1/2020", "G", "Guilty",
                 "2/2/2020", "$50.00", "$10.00">>,
     sentence |-> "1 Year", span_close |-> TRUE]

\* a row of n cells
ShortRow(statute, n, fill, sentence, span_close) ==
    [cells |-> [k \in 1..n |-> IF k = 1 THEN statute ELSE IF k = 2 THEN "d1" ELSE fill],
     sentence |-> sentence, span_close |-> span_close]

\* a row of the modification table: its cells 0, 1, 7, 8, 9 and 10; the row
\* at position pos carries a finding of its own; a row without statute is the
\* row of a sentence text
ModRow(key, pos) ==
    [statute |-> key[1], description |-> key[2],
     verdict_finding |-> "X" \o ToString(pos), verdict_date |-> "3/3/2021",
     fine |-> "", fees |-> "$5.00", defect |-> FALSE]

\* the same row with <span id=...></td></tr><tr class=grdRow><td colspan=11>
\* </td></tr></span> as its last cell: the span of that cell is empty
DefectRow(key, pos) == [ModRow(key, pos) EXCEPT !.defect = TRUE, !.fees = ""]

ModKeys == ChargeKeys \cup {<<"", " ">>}

ModTables ==
    UNION {{[p \in 1..n |-> IF ds[p] /\ ks[p] \in ChargeKeys
                            THEN DefectRow(ks[p], p) ELSE ModRow(ks[p], p)] :
               ks \in [1..n -> ModKeys], ds \in [1..n -> BOOLEAN]} : n \in 0..MaxMods}

FullTables ==
    UNION {{[p \in 1..n |-> FullRow(ks[p])] : ks \in [1..n -> ChargeKeys]} : n \in 0..MaxCharges}

ShortRows ==
    {ShortRow(statute, n, fill, sentence, span_close) :
        statute \in {"53-21 ", " 53-21", ""}, n \in 0..MaxCells, fill \in {"", "x"},
        sentence \in {NULL, "1 Year"}, span_close \in BOOLEAN}

ShortTables == {<<r>> : r \in ShortRows} \cup {<<r, FullRow(<<"14-227", "d2">>)>> : r \in ShortRows}

\* records whose charge rows are in no table of the id the parser looks for
NoTableDocuments ==
    {[table |-> FALSE, rows |-> rows, mods |-> mods] :
        rows \in {<<>>, <<FullRow(<<"53-21", "d1">>)>>}, mods \in ModTables}

Documents ==
    {[table |-> TRUE, rows |-> rows, mods |-> mods] : rows \in FullTables, mods \in ModTables}
    \cup {[table |-> TRUE, rows |-> rows, mods |-> mods] :
             rows \in ShortTables, mods \in {<<>>, <<ModRow(<<"53-21", "d1">>, 1)>>}}
    \cup NoTableDocuments

ParserStart(d) ==
    /\ doc = d
    /\ charges = <<>>
    /\ modified_data = <<>>
    /\ matched_indices = {}
    /\ mod_idx = 0
    /\ parser = "start"

ParserInit == \E d \in Documents : ParserStart(d)

\* no record is being parsed
ParserOff == ParserStart([table |-> FALSE, rows |-> <<>>, mods |-> <<>>])

(***************************************************************************)
(* ensure_connection (docket.py): one exchange with the server, repeated   *)
(* until the call of f returns.                                            *)
(***************************************************************************)

\* the callables passed as f
Callables == {"session.get", "session.post"}
Urls == {"SearchByCourt.aspx", "CaseDetail.aspx"}
\* payload: None, an empty dict, or the form fields of a postback
Payloads == {None, "{}", "form"}
\* status codes of a response: f returns whatever the server answered
StatusCodes == {200, 500}

\* if payload:
Truthy(payload) == payload \notin {None, "{}"}

\* the call f(url, headers = header, data = payload) or f(url, headers = header)
Exchange(f, url, header, payload) ==
    [f |-> f, url |-> url, headers |-> header,
     data |-> IF Truthy(payload) THEN payload ELSE None]

\* a loop that gives up after MaxRetries failed attempts
KeepTryingCapped(attempts) == attempts < MaxRetries

\* while True
KeepTrying(attempts) == TRUE

NoCall ==
    [pc |-> "off", f |-> None, url |-> None, header |-> None, payload |-> None,
     attempts |-> 0, slept |-> 0, sent |-> None, resp |-> None]

\* ensure_connection(f, url, header, payload) is entered
EnsureCall(f, url, header, payload) ==
    /\ conn.pc \in {"off", "returned"}
    /\ conn' = [NoCall EXCEPT !.pc = "try", !.f = f, !.url = url,
                              !.header = header, !.payload = payload]

\* the call of f returns a response, of whatever status: return resp
AttemptReturns(status) ==
    /\ conn.pc = "try"
    /\ conn' = [conn EXCEPT
                  !.attempts = @ + 1,
                  !.sent = Exchange(conn.f, conn.url, conn.header, conn.payload),
                  !.resp = [status_code |-> status, attempt |-> conn.attempts + 1],
                  !.pc = "returned"]

\* the call of f raises an Exception: it is printed, and the loop goes on
AttemptRaises ==
    /\ conn.pc = "try"
    /\ conn.attempts < MaxAttempts
    /\ conn' = [conn EXCEPT
                  !.attempts = @ + 1,
                  !.sent = Exchange(conn.f, conn.url, conn.header, conn.payload),
                  !.pc = IF KeepTrying(conn.attempts + 1) THEN "except" ELSE "raised"]

\* time.sleep(delay), then the next iteration
Sleep ==
    /\ conn.pc = "except"
    /\ conn' = [conn EXCEPT !.slept = @ + delay, !.pc = "try"]

\* no exchange is running
ConnOff == conn = NoCall

(***************************************************************************)
(* Record.get and the rows loop of Search.get_records (docket.py).         *)
(***************************************************************************)

\* a row of the result grid: its link title says Sealed or not
RowKinds == {"open", "sealed"}

PageRows == UNION {[1..n -> RowKinds] : n \in 1..MaxRows}

\* an attempt of Record.get that ends in retry_count += 1: a status other than
\* 200, a page that is not a record (Session Timeout, Error, too short), or
\* an exception
FailureKinds == {"status", "invalid", "exception"}

\* an attempt that ends in a return: the parsed record, or {} for a page
\* without title, of unknown type, or that the parser rejects
ReturnKinds == {"parsed", "no_title", "unknown_type", "parse_error"}

\* return {}
EmptyDict == <<>>

\* parsed_data, with parsed_data['href'] = self.url + href
ParsedData(href) == <<"parsed_data", href>>

RecordData(kind, href) == IF kind = "parsed" THEN ParsedData(href) ELSE EmptyDict

\* what get_records appends: convictions are wrapped, also an empty dict
Wrapped(search_type, record_data) ==
    IF search_type = "conviction" THEN <<"case_details", record_data>> ELSE record_data

\* results.append(...); count += 1; the for loop goes to the next row
Added(r, record_data) ==
    [r EXCEPT !.results = Append(@, Wrapped(r.search_type, record_data)),
              !.count = @ + 1,
              !.counted = @ \cup {r.row},
              !.row = @ + 1,
              !.pc = "for"]

NoRows ==
    [pc |-> "off", search_type |-> NULL, rows |-> <<>>, row |-> 1, retry_count |-> 0,
     count |-> 0, results |-> <<>>, sealed_count |-> 0, fetches |-> <<>>,
     gave_up |-> {}, counted |-> {}]

\* the for loop is exhausted, or: if count >= max_records: break
RowsEnd ==
    /\ rec.pc = "for"
    /\ rec.row > Len(rec.rows) \/ ~BelowLimit(rec.count)
    /\ rec' = [rec EXCEPT !.pc = "end"]

\* 'Sealed' in a_title: self.sealed_count += 1
SealedRow ==
    /\ rec.pc = "for"
    /\ rec.row <= Len(rec.rows) /\ BelowLimit(rec.count)
    /\ rec.rows[rec.row] = "sealed"
    /\ rec' = [rec EXCEPT !.sealed_count = @ + 1, !.row = @ + 1]

\* record_data = self.record.get(a_href) is entered: retry_count = 0
RecordGet ==
    /\ rec.pc = "for"
    /\ rec.row <= Len(rec.rows) /\ BelowLimit(rec.count)
    /\ rec.rows[rec.row] = "open"
    /\ rec' = [rec EXCEPT !.retry_count = 0, !.pc = "get"]

\* one attempt that fails: retry_count += 1 and, while retry_count <
\* max_retries, another attempt; otherwise Record.get returns {} and the
\* rows loop goes on with it
FetchFails(kind) ==
    /\ rec.pc = "get"
    /\ rec.retry_count < max_retries
    /\ LET fetched == [rec EXCEPT !.fetches[rec.row] = @ + 1, !.retry_count = @ + 1]
       IN  rec' = IF fetched.retry_count < max_retries
                  THEN fetched
                  ELSE Added([fetched EXCEPT !.gave_up = @ \cup {rec.row}], EmptyDict)

\* one attempt that gets a page with status 200: Record.get returns
FetchReturns(kind) ==
    /\ rec.pc = "get"
    /\ rec.retry_count < max_retries
    /\ rec' = Added([rec EXCEPT !.fetches[rec.row] = @ + 1], RecordData(kind, rec.row))

\* the rows loop is entered with the count of the pages before
RowsInit(search_type, rows, count) ==
    rec = [NoRows EXCEPT !.pc = "for", !.search_type = search_type, !.rows = rows,
                         !.count = count, !.fetches = [i \in DOMAIN rows |-> 0]]

RecOff == rec = NoRows

FetchOff == ConnOff /\ RecOff

Coord(A) == A /\ UNCHANGED <<pageVars, parserVars, wk, fetchVars>>

\* the coordinator under arbitrary calls of its operations by the workers
Init == CoordInit /\ PageOff /\ ParserOff /\ WorkersOff /\ FetchOff

Next ==
    \/ \E c \in SearchTypes, n \in 1..MaxPages : Coord(InitializeCount(c, n))
    \/ \E c \in SearchTypes, n \in 1..MaxPages : Coord(InitializeInsert(c, n))
    \/ \E w \in WorkerIds : Coord(RegisterWorker(w))
    \/ \E c \in SearchTypes, w \in WorkerIds : Coord(GetNextPage(c, w))
    \/ \E c \in SearchTypes, p \in 1..MaxPages, w \in WorkerIds :
          Coord(MarkPageComplete(c, p, w))
    \/ Coord(Tick(MaxTicks, TickMinutes))

Spec == Init /\ [][Next]_vars

\* the ledger operations over a time long enough to exhaust the retries of a
\* page, called by workers that never registered (the workers table stays empty)
NextLong ==
    \/ \E c \in SearchTypes, n \in 1..MaxPagesLong : Coord(InitializeCount(c, n))
    \/ \E c \in SearchTypes, n \in 1..MaxPagesLong : Coord(InitializeInsert(c, n))
    \/ \E c \in SearchTypes, w \in WorkerIds : Coord(GetNextPage(c, w))
    \/ \E c \in SearchTypes, p \in 1..MaxPagesLong, w \in WorkerIds :
          Coord(MarkPageComplete(c, p, w))
    \/ Coord(Tick(MaxTicksLong, TickMinutesLong))

SpecLong == Init /\ [][NextLong]_vars

Page(A) == A /\ UNCHANGED <<coordVars, parserVars, wk, fetchVars, mgr>>

\* the crawler process of docket.py against a listing, with crashes and restarts
PageNext ==
    \/ Page(StartProcess)
    \/ Page(SkipSearch)
    \/ Page(BeginGetRecords)
    \/ Page(BeginWithCheckpoint)
    \/ Page(FetchFirst)
    \/ Page(Replay)
    \/ Page(LoopGetRecords)
    \/ Page(LoopWithCheckpoint)
    \/ Page(Advance)
    \/ Page(Return)
    \/ Page(Exit)
    \/ Page(Crash)

PageSpecInit == CoordInit /\ PageInit /\ ParserOff /\ WorkersOff /\ FetchOff

SpecPage == PageSpecInit /\ [][PageNext]_vars

Parse(A) == A /\ UNCHANGED <<coordVars, pageVars, wk, fetchVars>>

\* the parser applied to one conviction record
ParseNext ==
    \/ Parse(ParseTables)
    \/ Parse(MergeRow)
    \/ Parse(EnsureFields)
    \/ Parse(Standardize)

ParseSpecInit == CoordInit /\ PageOff /\ ParserInit /\ WorkersOff /\ FetchOff

SpecParse == ParseSpecInit /\ [][ParseNext]_vars

Work(A) == A /\ UNCHANGED <<pageVars, parserVars, fetchVars>>

\* workers running run_coordinated_worker on one ledger
WorkNext ==
    \/ \E w \in WorkerIds : Work(WorkerStart(w))
    \/ \E w \in WorkerIds : Work(WorkerNextPage(w))
    \/ \E w \in WorkerIds : Work(WorkerPageDone(w))
    \/ \E w \in WorkerIds : Work(WorkerPageError(w))
    \/ \E w \in WorkerIds : Work(WorkerCrash(w))
    \/ Work(WorkerTick)

WorkSpecInit ==
    /\ \E c \in SearchTypes, n \in 1..MaxLedger : WorkersInit(c, n)
    /\ PageOff
    /\ ParserOff
    /\ FetchOff

SpecWork == WorkSpecInit /\ [][WorkNext]_vars

\* the same workers, each of them scheduled: a process that has not crashed
\* takes its next step, the processing of a page ends, by success or by an
\* exception, and the clock does not stand still while a worker runs
WorkFair ==
    \A w \in WorkerIds :
        /\ WF_vars(Work(WorkerStart(w)))
        /\ WF_vars(Work(WorkerNextPage(w)))
        /\ WF_vars(Work(WorkerPageDone(w)) \/ Work(WorkerPageError(w)))
        /\ WF_vars(Work(WorkerTick))

SpecWorkFair == WorkSpecInit /\ [][WorkNext]_vars /\ WorkFair

Transport(A) == A /\ UNCHANGED <<coordVars, pageVars, parserVars, wk, rec>>

\* calls of ensure_connection, one after the other, over a failing network
TransportNext ==
    \/ \E f \in Callables, url \in Urls, payload \in Payloads :
          Transport(EnsureCall(f, url, "header", payload))
    \/ \E status \in StatusCodes : Transport(AttemptReturns(status))
    \/ Transport(AttemptRaises)
    \/ Transport(Sleep)

TransportSpecInit == CoordInit /\ PageOff /\ ParserOff /\ WorkersOff /\ FetchOff

SpecTransport == TransportSpecInit /\ [][TransportNext]_vars

Records(A) == A /\ UNCHANGED <<coordVars, pageVars, parserVars, wk, conn>>

\* the rows of one result page, each record fetched over a failing server
RecordsNext ==
    \/ Records(RowsEnd)
    \/ Records(SealedRow)
    \/ Records(RecordGet)
    \/ \E kind \in FailureKinds : Records(FetchFails(kind))
    \/ \E kind \in ReturnKinds : Records(FetchReturns(kind))

RecordsSpecInit ==
    /\ CoordInit /\ PageOff /\ ParserOff /\ WorkersOff /\ ConnOff
    /\ \E c \in SearchTypes, rows \in PageRows, count \in {0, max_records - 1} :
          RowsInit(c, rows, count)

SpecRecords == RecordsSpecInit /\ [][RecordsNext]_vars

Manager(A) ==
    A /\ UNCHANGED <<coordVars, parserVars, wk, fetchVars, srv, run, requests, handled, runs>>

\* calls on the CheckpointManager in any order
ManagerNext ==
    \/ \E c \in SearchTypes, page \in PageArgs, href \in HrefArgs, total \in TotalArgs,
          w \in WriteOutcomes : Manager(ManagerUpdate(c, page, href, total, w))
    \/ \E c \in SearchTypes, w \in WriteOutcomes : Manager(ManagerMarkComplete(c, w))
    \/ \E answer \in Answers : Manager(ManagerReset(answer))
    \/ Manager(ManagerNew)

ManagerSpecInit ==
    /\ CoordInit /\ ParserOff /\ WorkersOff /\ FetchOff
    /\ \E f \in {NoFile, Unreadable} : PageStart(0, 0, f)

SpecManager == ManagerSpecInit /\ [][ManagerNext]_vars

(***************************************************************************)
(* Properties of the coordinator.                                          *)
(***************************************************************************)
\* a step in which get_next_page handed page p of search type c to a worker
Handed(c, p) ==
    /\ last'.op = "get_next_page"
    /\ last'.result = p
    /\ p \in DOMAIN pages[c]
    /\ pages'[c] # pages[c]

\* C1 (lease exclusivity): whenever get_next_page hands out a page, that page
\* was not held under an unexpired lease (assigned less than, or exactly, 30
\* minutes ago) and was not completed: no page goes to a second worker while
\* the first holder's lease runs.
C1_LeaseExclusive ==
    [][\A c \in SearchTypes : \A p \in DOMAIN pages[c] :
          Handed(c, p) =>
            /\ ~(pages[c][p].status = "assigned"
                 /\ pages[c][p].assigned_at + 30 >= now)
            /\ pages[c][p].status # "completed"]_vars

\* a page whose expired lease was taken over: it is assigned, it has been
\* reclaimed before, and the last call handed it out
C1_Witness ==
    \E c \in SearchTypes : \E p \in DOMAIN pages[c] :
        /\ last.op = "get_next_page" /\ last.result = p
        /\ pages[c][p].status = "assigned"
        /\ pages[c][p].retry_count >= 1
        /\ pages[c][p].assigned_at = now

\* C2: mark_page_complete(c, p, w) completes the row (status completed,
\* completed_at = now) exactly when the stored worker_id is w; otherwise the
\* row, and every other row, is left as it was.
C2_CompleteOnlyByOwner ==
    [][\A c \in SearchTypes, w \in WorkerIds : \A p \in DOMAIN pages[c] :
          MarkPageComplete(c, p, w) =>
            /\ IF pages[c][p].worker_id = w
               THEN /\ pages'[c][p].status = "completed"
                    /\ pages'[c][p].completed_at = now
                    /\ pages'[c][p].worker_id = w
               ELSE pages'[c][p] = pages[c][p]
            /\ \A d \in SearchTypes : \A q \in DOMAIN pages[d] :
                  <<d, q>> # <<c, p>> => pages'[d][q] = pages[d][q]]_vars

\* a worker lost its lease to another worker, called mark_page_complete for the
\* page, and the page is still assigned to the new owner
C2_Witness ==
    \E c \in SearchTypes : \E p \in DOMAIN pages[c] :
        /\ last.op = "mark_page_complete" /\ last.result = p
        /\ pages[c][p].status = "assigned"
        /\ pages[c][p].retry_count >= 1
        /\ \A d \in SearchTypes : \A q \in DOMAIN pages[d] : pages[d][q].status # "completed"

\* C3 (lease reclamation): in a get_next_page call on search type c, every row
\* that is assigned, was assigned more than 30 minutes ago and has
\* retry_count < 3 gets retry_count + 1 and is pending without owner (or is the
\* one page the same call hands to the caller); every other assigned row is
\* left as it is, and no other row changes its retry_count.
C3_Reclamation ==
    [][\A c \in SearchTypes, w \in WorkerIds : \A p \in DOMAIN pages[c] :
          GetNextPage(c, w) =>
            LET old == pages[c][p]
                new == pages'[c][p]
            IN  IF old.status = "assigned" /\ old.assigned_at + 30 < now
                   /\ old.retry_count < 3
                THEN /\ new.retry_count = old.retry_count + 1
                     /\ \/ new.status = "pending" /\ new.worker_id = NULL
                        \/ /\ last'.result = p
                           /\ new.status = "assigned" /\ new.worker_id = w
                ELSE /\ new.retry_count = old.retry_count
                     /\ old.status = "assigned" => new = old]_vars

\* both cases at once: a page reclaimed for the third time, and later a sweep
\* that found its fourth lease expired and left it assigned
C3_Witness ==
    \E c \in SearchTypes : \E p \in DOMAIN pages[c] :
        /\ last.op = "get_next_page"
        /\ pages[c][p].status = "assigned"
        /\ pages[c][p].retry_count = 3
        /\ pages[c][p].assigned_at + 30 < now

\* the rows get_next_page can hand out: pending, or assigned and abandoned
Available(c) ==
    {p \in DOMAIN pages[c] :
        \/ pages[c][p].status = "pending"
        \/ /\ pages[c][p].status = "assigned"
           /\ pages[c][p].assigned_at + 30 < now
           /\ pages[c][p].retry_count < 3}

\* C4 (assignment): get_next_page(c, w) returns the lowest page number that is
\* pending after reclamation and leaves it assigned to w at the current time,
\* assigning no other row; it returns None exactly when no row is pending after
\* reclamation, and then changes nothing.
C4_Assignment ==
    [][\A c \in SearchTypes, w \in WorkerIds :
          GetNextPage(c, w) =>
            IF Available(c) = {}
            THEN last'.result = 0 /\ pages' = pages
            ELSE LET p == last'.result
                 IN  /\ p \in Available(c)
                     /\ \A q \in Available(c) : p <= q
                     /\ pages'[c][p].status = "assigned"
                     /\ pages'[c][p].worker_id = w
                     /\ pages'[c][p].assigned_at = now
                     /\ \A q \in DOMAIN pages[c] \ {p} :
                           pages'[c][q].status = "assigned" => pages'[c][q] = pages[c][q]
                     /\ \A d \in SearchTypes \ {c} : pages'[d] = pages[d]]_vars

\* the page handed out is the lowest pending one: page 1 was reclaimed and is
\* leased again, and page 2 has just been handed out
C4_Witness ==
    \E c \in SearchTypes :
        /\ Len(pages[c]) >= 2
        /\ last.op = "get_next_page" /\ last.result = 2
        /\ pages[c][1].status = "assigned" /\ pages[c][1].retry_count = 1
        /\ pages[c][2].status = "assigned" /\ pages[c][2].assigned_at = now

\* get_next_page returned None while a lease of a worker is outstanding
C4_WitnessNone ==
    \E c \in SearchTypes :
        /\ Len(pages[c]) > 0
        /\ last.op = "get_next_page" /\ last.result = 0
        /\ \E p \in DOMAIN pages[c] : pages[c][p].status = "assigned"

\* C5 (retry exhaustion): a row that is assigned with retry_count >= 3 changes
\* only by its owner's mark_page_complete, so no sweep returns it to pending;
\* and no row ever has a status other than pending, assigned or completed
\* (never failed).
C5_RetryExhaustion ==
    /\ [](\A c \in SearchTypes : \A p \in DOMAIN pages[c] :
            pages[c][p].status \in {"pending", "assigned", "completed"})
    /\ [][\A c \in SearchTypes : \A p \in DOMAIN pages[c] :
            (pages[c][p].status = "assigned" /\ pages[c][p].retry_count >= 3
             /\ pages'[c][p] # pages[c][p])
            => /\ last'.op = "mark_page_complete" /\ last'.result = p
               /\ pages'[c][p].status = "completed"
               /\ pages'[c][p].worker_id = pages[c][p].worker_id]_vars

\* a row stuck with an expired lease and no retries left, seen by a sweep
C5_Witness ==
    \E c \in SearchTypes : \E p \in DOMAIN pages[c] :
        /\ last.op = "get_next_page" /\ last.result = 0
        /\ pages[c][p].status = "assigned"
        /\ pages[c][p].retry_count >= 3
        /\ pages[c][p].assigned_at + 30 < now

\* C6 (initialize_pages): an invocation that inserts into a search type without
\* rows creates exactly the rows 1..total_pages, all pending, unowned, with
\* retry_count 0; an invocation on a search type that has rows changes nothing
\* and schedules no insert.
C6_InitializeOnce ==
    [][\A c \in SearchTypes, n \in 1..MaxPages :
          /\ (InitializeInsert(c, n) /\ Len(pages[c]) = 0) =>
                /\ DOMAIN pages'[c] = 1..n
                /\ \A i \in 1..n :
                      pages'[c][i] = [status |-> "pending", worker_id |-> NULL,
                                      assigned_at |-> NullTime, completed_at |-> NullTime,
                                      retry_count |-> 0]
          /\ (InitializeCount(c, n) /\ Len(pages[c]) > 0) =>
                UNCHANGED <<pages, workers, initPending>>]_vars

\* initialize_pages was called on a search type whose rows exist and are no
\* longer all pending
C6_Witness ==
    \E c \in SearchTypes :
        /\ last.op = "initialize_pages" /\ last.result > 0
        /\ Len(pages[c]) = last.result
        /\ \E p \in DOMAIN pages[c] : pages[c][p].status = "completed"
        /\ \E p \in DOMAIN pages[c] : pages[c][p].status = "assigned"

(***************************************************************************)
(* Properties of the pagination traversal.                                 *)
(***************************************************************************)
\* C7 (sequential dependency of pagination): within one traversal the first
\* request is the one for page 1, and a request for page k > 1 is only issued
\* right after the request for page k-1, and in the page loop by a process
\* that holds the response showing page k-1; and a traversal resumed at page L > 1 has requested
\* pages 1, 2, ..., L in this order before it extracts its first record, which
\* it takes from page L.
C7_SequentialPages ==
    /\ [][(requests' # requests /\ requests' # <<>>) =>
             LET k == requests'[Len(requests')]
             IN  /\ requests' = Append(requests, k)
                 /\ IF requests = <<>>
                    THEN k = 1
                    ELSE /\ k = requests[Len(requests)] + 1
                         /\ run.pc = "advance" => run.resp = k - 1]_vars
    /\ [](  (run.mode = "with_checkpoint" /\ run.start_page > 1 /\ handled # <<>>)
         => /\ Len(requests) >= run.start_page
            /\ \A i \in 1..run.start_page : requests[i] = i
            /\ handled[1] = run.start_page)

\* C7's case: a traversal resumed from a saved page above 1 has replayed the
\* pages and extracted records again
C7_Witness ==
    /\ run.mode = "with_checkpoint"
    /\ run.start_page > 1
    /\ handled # <<>>
    /\ Len(requests) > run.start_page
    /\ runs = 2

\* C8 (terminal condition): at the loop test the response in hand is processed
\* as page p exactly when it shows the marker of p; a response without that
\* marker ends the traversal with no page processed and no further request,
\* and in the checkpointed traversal the search type is then recorded as
\* completed in memory and in the file; nothing is requested once the
\* traversal has ended.
C8_TerminalCondition ==
    /\ [][(run.pc = "loop" /\ run'.pc \in {"advance", "done"}) =>
             IF run.resp = run.page
             THEN handled' = Append(handled, run.page)
             ELSE /\ handled' = handled
                  /\ requests' = requests
                  /\ run'.pc = "done"
                  /\ run.mode = "with_checkpoint" =>
                        /\ ckpt'[run.search_type].completed
                        /\ file'.exists /\ file'.valid
                        /\ file'.data[run.search_type].completed = <<"true">>]_vars
    /\ [][(handled' # handled /\ handled' # <<>>) =>
             /\ run.pc = "loop"
             /\ run.resp = run.page
             /\ handled' = Append(handled, run.page)]_vars
    /\ [][run.pc = "done" => requests' = requests]_vars

\* C8's case: a checkpointed traversal processed every page of a listing of
\* several pages, met the response without the next marker and ended
C8_Witness ==
    /\ run.pc = "done"
    /\ run.mode = "with_checkpoint"
    /\ srv.total >= 2
    /\ Len(handled) = srv.total
    /\ Len(requests) = srv.total + 1
    /\ ckpt[run.search_type].completed
    /\ file.exists /\ file.valid
    /\ file.data[run.search_type].completed = <<"true">>

(***************************************************************************)
(* Properties of the record parser.                                        *)
(***************************************************************************)
\* C9 (reconciliation by occurrence): when parse_conviction_charges returns,
\* a charge carries the modification of a row (is_modified with that row's
\* finding) exactly when both have the same (statute, description) key and the
\* charge is the N-th main-table charge with that key where the row is the
\* N-th modification row with it; a row whose occurrence number exceeds the
\* number of such charges marks nothing, and no charge is marked otherwise.
C9_ReconcileByOccurrence ==
    parser = "ensured" =>
        LET sameKey(c, m) ==
                /\ charges[c].Statute = modified_data[m].statute
                /\ charges[c].Description = modified_data[m].description
            chargeOcc(c) ==
                Cardinality({j \in 1..c :
                    /\ charges[j].Statute = charges[c].Statute
                    /\ charges[j].Description = charges[c].Description})
            rowOcc(m) ==
                Cardinality({j \in 1..m :
                    /\ modified_data[j].statute = modified_data[m].statute
                    /\ modified_data[j].description = modified_data[m].description})
            marks(m, c) ==
                /\ charges[c].is_modified
                /\ charges[c].modified_sentence_finding = modified_data[m].verdict_finding
        IN  /\ \A m \in DOMAIN modified_data : \A c \in DOMAIN charges :
                   marks(m, c) <=> (sameKey(c, m) /\ chargeOcc(c) = rowOcc(m))
            /\ \A c \in DOMAIN charges :
                   charges[c].is_modified => \E m \in DOMAIN modified_data : marks(m, c)

\* C9's case: charges (A,d1), (A,d1), (B,d2) and one modification row (A,d1):
\* only the first charge is marked
C9_Witness ==
    /\ parser = "ensured"
    /\ Len(charges) = 3
    /\ Len(modified_data) = 1
    /\ charges[1].Statute = charges[2].Statute
    /\ charges[1].Description = charges[2].Description
    /\ charges[3].Statute # charges[1].Statute
    /\ modified_data[1].statute = charges[1].Statute
    /\ modified_data[1].description = charges[1].Description
    /\ charges[1].is_modified
    /\ charges[1].modified_sentence_finding = "X1"
    /\ ~charges[2].is_modified
    /\ ~charges[3].is_modified

C10_WitnessLong ==
    /\ parser = "done"
    /\ Len(doc.rows) = 1
    /\ Len(doc.rows[1].cells) > 11
    /\ Len(charges) = 1

C12_WitnessGap ==
    /\ run.mode = "with_checkpoint"
    /\ ckpt[run.search_type].last_page = 9
    /\ ~file.exists

\* C13 (last_page is monotone within a run): no step of a running process
\* lowers the last_page of any search type, and every update_search_progress
\* of a checkpointed traversal (a page being extracted) stores a page number
\* that is at least the last_page it replaces.
C13_LastPageMonotone ==
    /\ [][(run.pc # "off" /\ run'.pc # "off") =>
             \A c \in {"pending", "conviction"} : ckpt[c].last_page <= ckpt'[c].last_page]_vars
    /\ [][(run.mode = "with_checkpoint" /\ handled' # handled /\ handled' # <<>>) =>
             /\ ckpt'[run.search_type].last_page = run.page
             /\ ckpt[run.search_type].last_page <= run.page]_vars

\* C13's case: a resumed traversal has updated the progress beyond the page it
\* resumed from
C13_Witness ==
    /\ run.mode = "with_checkpoint"
    /\ run.start_page = 10
    /\ Len(handled) = 2
    /\ ckpt[run.search_type].last_page = 11

\* C14 (resume without reprocessing): a checkpointed traversal that resumed
\* from a saved last_page L >= 1 extracts records only from pages above L: the
\* pages 1..L, already counted in the saved total_processed, are visited for
\* navigation only.
C14_NoReprocessing ==
    (run.mode = "with_checkpoint" /\ run.start_page >= 1) =>
        \A i \in DOMAIN handled : handled[i] > run.start_page

\* C14's case as the code runs it: resumed from page 10 with 10 records a
\* page and 100 counted, the traversal has extracted page 10 again and counts
\* 110 records after a single page of this run
C14_Witness ==
    /\ runs = 2
    /\ run.mode = "with_checkpoint"
    /\ run.start_page = 10
    /\ srv.rows = 10
    /\ handled = <<10>>
    /\ ckpt[run.search_type].last_page = 10
    /\ ckpt[run.search_type].total_processed = 110
    /\ file.data[run.search_type].total_processed = <<"number", 110>>

(***************************************************************************)
(* Properties of the coordinated workers.                                  *)
(***************************************************************************)
\* C15 (crash after the first page of a 3-page ledger): when page 1 has been
\* completed by a worker that then crashed and pages 2 and 3 are pending, a
\* get_next_page call of any worker returns page 2: page 2 becomes assigned
\* to the caller, page 1 stays completed and page 3 stays pending.
C15_CrashScenario ==
    [][\A c \in {"pending", "conviction"} : \A w, v \in {"w1", "w2"} :
          (/\ Len(pages[c]) = 3
           /\ pages[c][1].status = "completed" /\ pages[c][1].worker_id = w
           /\ wk[w].pc = "crashed"
           /\ pages[c][2].status = "pending" /\ pages[c][3].status = "pending"
           /\ wk[v].pc = "loop" /\ wk'[v].pc \in {"work", "ended"})
          => /\ wk'[v].pc = "work"
             /\ wk'[v].page_number = 2
             /\ last' = [op |-> "get_next_page", result |-> 2]
             /\ pages'[c][2].status = "assigned" /\ pages'[c][2].worker_id = v
             /\ pages'[c][1] = pages[c][1]
             /\ pages'[c][3] = pages[c][3]]_vars

\* C15's case: w1 completed page 1 of 3 and crashed; w2 then got page 2
C15_Witness ==
    \E c \in {"pending", "conviction"} :
        /\ Len(pages[c]) = 3
        /\ pages[c][1].status = "completed" /\ pages[c][1].worker_id = "w1"
        /\ wk["w1"].pc = "crashed" /\ wk["w1"].got = <<1>>
        /\ wk["w2"].pc = "work" /\ wk["w2"].got = <<2>>
        /\ pages[c][2].status = "assigned" /\ pages[c][2].worker_id = "w2"
        /\ pages[c][3].status = "pending"

\* C16 (per-worker ordering): within one worker session the page numbers
\* returned by its successive get_next_page calls never go down.
C16_PerWorkerOrder ==
    \A w \in {"w1", "w2"} :
        \A i \in DOMAIN wk[w].got : \A j \in DOMAIN wk[w].got :
            i <= j => wk[w].got[i] <= wk[w].got[j]

\* C16's case as the code runs it: alone on the ledger, a worker failed on
\* page 1, went on to page 2, and after the lease of page 1 ran out was given
\* page 1 again
C16_Witness ==
    /\ wk["w1"].got = <<1, 2, 1>>
    /\ wk["w1"].pc = "work"
    /\ wk["w2"].pc = "new"
    /\ \E c \in {"pending", "conviction"} :
          /\ Len(pages[c]) >= 2
          /\ pages[c][1].status = "assigned" /\ pages[c][1].retry_count = 1
          /\ pages[c][2].status = "completed"

(***************************************************************************)
(* Properties of the transport.                                            *)
(***************************************************************************)

\* C17 (retrying transport): ensure_connection never raises a failure of
\* the exchange to its caller; every failed attempt is followed by one sleep
\* of the same fixed delay and then the same exchange is sent again, however
\* many attempts have failed; the call ends only by returning, and what it
\* returns is the response of the first attempt that did not fail.
C17_RetriesUntilSuccess ==
    /\ [](/\ conn.pc # "raised"
          /\ conn.pc = "returned" =>
                /\ conn.resp.attempt = conn.attempts
                /\ conn.slept = delay * (conn.attempts - 1)
          /\ conn.pc = "except" => conn.slept = delay * (conn.attempts - 1)
          /\ conn.pc = "try" => conn.slept = delay * conn.attempts)
    /\ [][conn.pc = "except" =>
             /\ conn'.pc = "try"
             /\ conn'.slept = conn.slept + 60
             /\ conn'.attempts = conn.attempts
             /\ <<conn'.f, conn'.url, conn'.header, conn'.payload>>
                   = <<conn.f, conn.url, conn.header, conn.payload>>]_vars
    /\ [][conn.pc = "try" =>
             /\ conn'.pc \in {"except", "returned"}
             /\ conn'.attempts = conn.attempts + 1
             /\ conn'.sent = [f |-> conn.f, url |-> conn.url, headers |-> conn.header,
                              data |-> IF conn.payload \in {"None", "{}"}
                                       THEN "None" ELSE conn.payload]
             /\ conn.attempts > 0 => conn'.sent = conn.sent
             /\ conn'.pc = "returned" => conn'.resp.attempt = conn'.attempts
             /\ conn'.slept = conn.slept]_vars

\* C17's case: four attempts of a postback raised, each followed by a sleep
\* of 60 seconds, and the fifth returned
C17_Witness ==
    /\ conn.pc = "returned"
    /\ conn.f = "session.post" /\ conn.payload = "form"
    /\ conn.attempts = 5
    /\ conn.slept = 240
    /\ conn.resp = [status_code |-> 200, attempt |-> 5]
    /\ conn.sent.data = "form"

(***************************************************************************)
(* Properties of the record fetch.                                         *)
(***************************************************************************)

\* no record is fetched more than 3 times
C18_AtMostThreeFetches == \A i \in DOMAIN rec.fetches : rec.fetches[i] <= 3

\* a record given up after its third failed fetch is not counted
C18_GivenUpNotCounted == rec.gave_up \cap rec.counted = {}

\* when the rows loop ends below the record limit, every row was visited:
\* a sealed row was counted as sealed, any other row was fetched
C18_RestProcessed ==
    (rec.pc = "end" /\ rec.count < max_records) =>
        /\ rec.row = Len(rec.rows) + 1
        /\ \A i \in DOMAIN rec.rows : rec.rows[i] = "open" => rec.fetches[i] >= 1

\* C18 (capped record fetches): a record is fetched at most 3 times; after
\* the third failed fetch the record is skipped, which means it is not
\* counted as a processed record; the rows after it are still processed.
C18_CappedFetchThenSkip ==
    /\ C18_AtMostThreeFetches
    /\ C18_GivenUpNotCounted
    /\ C18_RestProcessed

\* C18's case as the code runs it: the first record of a page of three failed
\* three times and the other two were fetched; the count is 3 and the
\* results hold an empty record first
C18_Witness ==
    /\ rec.pc = "end"
    /\ rec.search_type = "pending"
    /\ rec.rows = <<"open", "open", "open">>
    /\ rec.fetches = <<3, 1, 1>>
    /\ rec.gave_up = {1}
    /\ rec.count = 3
    /\ rec.results = <<<<>>, <<"parsed_data", 2>>, <<"parsed_data", 3>>>>

(***************************************************************************)
(* Properties of the checkpoint operations.                                *)
(***************************************************************************)

\* the checkpoint file records the search type as completed
Flagged(f, c) == f.exists /\ f.valid /\ f.data[c].completed = <<"true">>

C20_LoadOrDefault ==
    /\ [][(run.pc = "off" /\ run'.pc # "off") =>
             /\ run'.pc = "main"
             /\ IF file.exists /\ file.valid
                THEN \A c \in {"pending", "conviction"} :
                        /\ <<"number", ckpt'[c].last_page>> = file.data[c].last_page
                        /\ <<"number", ckpt'[c].total_processed>>
                              = file.data[c].total_processed
                        /\ ckpt'[c].completed = (file.data[c].completed = <<"true">>)
                        /\ IF ckpt'[c].last_href = 0
                           THEN file.data[c].last_href = <<"null">>
                           ELSE file.data[c].last_href = <<"string", ckpt'[c].last_href>>
                ELSE \A c \in {"pending", "conviction"} :
                        ckpt'[c] = [last_page |-> 0, last_href |-> 0,
                                    completed |-> FALSE, total_processed |-> 0]]_vars
    /\ [](\A f \in {file, NoFile, Unreadable} :
             DOMAIN load_checkpoint(f) = {"pending", "conviction"})

\* C20's case, the persisted state: the second process loaded what the first
\* had saved on page 10
C20_Witness ==
    /\ runs = 2 /\ run.pc = "main"
    /\ file.exists /\ file.valid
    /\ ckpt["pending"].last_page = 10
    /\ ckpt["pending"].last_href = 10
    /\ ckpt["pending"].total_processed = 100
    /\ ~ckpt["pending"].completed

\* C20's case, the default: a process started over a checkpoint file that
\* cannot be decoded and holds the fresh default
C20_WitnessUnreadable ==
    /\ runs = 1 /\ run.pc = "main"
    /\ file.exists /\ ~file.valid
    /\ ckpt = DefaultCheckpoint

(***************************************************************************)
(* Properties of the CheckpointManager under arbitrary calls.              *)
(***************************************************************************)

\* C21 (reset on confirmation only): a call of reset answered with y, in
\* either case, leaves no checkpoint file and the fresh default in memory;
\* answered with anything else it leaves the file and the in-memory
\* checkpoint exactly as they were.
C21_ResetOnConfirmation ==
    [][(mgr' # mgr /\ mgr'.op = "reset") =>
          IF mgr'.answer \in {"y", "Y"}
          THEN /\ ~file'.exists
               /\ \A c \in {"pending", "conviction"} :
                     ckpt'[c] = [last_page |-> 0, last_href |-> 0,
                                 completed |-> FALSE, total_processed |-> 0]
          ELSE /\ file' = file
               /\ ckpt' = ckpt]_vars

\* C21's case, confirmed: after a completion was written to the file, reset
\* answered Y removed the file and the progress in memory
C21_Witness ==
    /\ mgr.op = "reset" /\ mgr.answer = "Y"
    /\ mgr.calls = 3 /\ mgr.failed = 0
    /\ ~file.exists
    /\ ckpt = DefaultCheckpoint

\* C21's case, declined: reset answered with the word yes left a written
\* file and the progress in memory
C21_WitnessDeclined ==
    /\ mgr.op = "reset" /\ mgr.answer = "yes"
    /\ file.exists /\ file.valid
    /\ file.data["pending"].last_page = <<"number", 10>>
    /\ ckpt["pending"].last_page = 10

\* C22 (failed persist): a call of update_search_progress or
\* mark_search_complete whose write of the file fails still returns; the
\* in-memory checkpoint after it is what the call sets whether the write
\* failed or not; further calls are accepted afterwards; and every later
\* call that is due to save attempts the write again, leaving on success a
\* file that holds the in-memory checkpoint.
C22_FailedPersistContained ==
    /\ [](mgr.outcome = "returned")
    /\ [][(mgr' # mgr /\ mgr'.op = "update_search_progress") =>
             /\ ckpt' = [ckpt EXCEPT ![mgr'.search_type].last_page = mgr'.page,
                                     ![mgr'.search_type].last_href = mgr'.href,
                                     ![mgr'.search_type].total_processed = mgr'.total]
             /\ mgr'.page % 10 = 0 => mgr'.write # "none"]_vars
    /\ [][(mgr' # mgr /\ mgr'.op = "mark_search_complete") =>
             /\ ckpt' = [ckpt EXCEPT ![mgr'.search_type].completed = TRUE]
             /\ mgr'.write # "none"]_vars
    /\ [][(mgr' # mgr /\ mgr'.write = "ok") =>
             /\ file'.exists /\ file'.valid
             /\ \A c \in {"pending", "conviction"} :
                   /\ load_checkpoint(file')[c].last_page = ckpt'[c].last_page
                   /\ load_checkpoint(file')[c].completed = ckpt'[c].completed
                   /\ load_checkpoint(file')[c].total_processed
                         = ckpt'[c].total_processed]_vars
    /\ [][(mgr' # mgr /\ mgr'.write \in {"open_raises", "dump_raises"}) =>
             mgr'.failed = mgr.failed + 1]_vars

\* C22's case: the write of page 10 failed and left the file unreadable, the
\* call returned with the progress in memory, and the call is recorded
C22_Witness ==
    /\ mgr.op = "update_search_progress" /\ mgr.page = 10
    /\ mgr.write = "dump_raises" /\ mgr.outcome = "returned"
    /\ ckpt[mgr.search_type].last_page = 10
    /\ ckpt[mgr.search_type].total_processed = 7
    /\ file.exists /\ ~file.valid

\* C22's case, the retry: after a failed write the completion that followed
\* wrote the file, which holds the progress of the call whose write failed
C22_WitnessRetry ==
    /\ mgr.op = "mark_search_complete" /\ mgr.search_type = "pending"
    /\ mgr.calls = 2 /\ mgr.failed = 1 /\ mgr.write = "ok"
    /\ file.exists /\ file.valid
    /\ file.data["pending"].last_page = <<"number", 10>>
    /\ file.data["pending"].completed = <<"true">>

\* C29 (persist cadence): a call of update_search_progress sets last_page,
\* last_href and total_processed of its search type in memory and nothing
\* of the other search type nor the completed flag; it writes the file when
\* its page is a multiple of 10, and then the file holds the in-memory
\* checkpoint; for any other page the file is left as it was.
C29_PersistCadence ==
    [][(mgr' # mgr /\ mgr'.op = "update_search_progress") =>
          /\ ckpt'[mgr'.search_type] =
                [last_page |-> mgr'.page, last_href |-> mgr'.href,
                 completed |-> ckpt[mgr'.search_type].completed,
                 total_processed |-> mgr'.total]
          /\ \A c \in {"pending", "conviction"} \ {mgr'.search_type} : ckpt'[c] = ckpt[c]
          /\ IF mgr'.page \in {0, 10, 20}
             THEN /\ mgr'.write # "none"
                  /\ mgr'.write = "ok" =>
                        /\ file'.exists /\ file'.valid
                        /\ json_load(file'.data) = ckpt'
             ELSE /\ mgr'.write = "none"
                  /\ file' = file]_vars

\* C29's case: progress of page 10 was written, then progress of page 11 of
\* the same search type changed the memory and not the file
C29_Witness ==
    /\ mgr.op = "update_search_progress" /\ mgr.page = 11 /\ mgr.search_type = "pending"
    /\ mgr.write = "none" /\ mgr.failed = 0 /\ mgr.calls = 2
    /\ ckpt["pending"].last_page = 11
    /\ file.exists /\ file.valid
    /\ file.data["pending"].last_page = <<"number", 10>>

(***************************************************************************)
(* Further properties of the coordinator.                                  *)
(***************************************************************************)

\* C23 (register is an upsert): a call of register_worker leaves the pages
\* table and every other worker's row as they were and leaves one row for
\* its worker, active and with last_heartbeat now; when the worker had a row
\* already, the pages_completed of that row is kept.
C23_RegisterUpsert ==
    [][(last'.op = "register_worker" /\ now' = now) =>
          /\ pages' = pages
          /\ \E w \in {"w1", "w2"} :
                /\ DOMAIN workers' = DOMAIN workers \cup {w}
                /\ workers'[w].last_heartbeat = now
                /\ workers'[w].status = "active"
                /\ \A x \in DOMAIN workers \ {w} : workers'[x] = workers[x]
                /\ w \in DOMAIN workers =>
                      workers'[w].pages_completed = workers[w].pages_completed]_vars

\* C23's case as the code runs it: w1 has completed a page and has just
\* been registered; its row counts no completed page
C23_Witness ==
    /\ last.op = "register_worker"
    /\ "w1" \in DOMAIN workers /\ "w2" \notin DOMAIN workers
    /\ workers["w1"].pages_completed = 0
    /\ workers["w1"].last_heartbeat = now
    /\ \E c \in {"pending", "conviction"} :
          /\ Len(pages[c]) >= 1
          /\ pages[c][1].status = "completed" /\ pages[c][1].worker_id = "w1"

(***************************************************************************)
(* Further properties of the record parser.                                *)
(***************************************************************************)

\* C24 (no primary table): when the markup holds no charge table for the
\* parser to find, parsing does not raise and the charge list is empty at
\* every step and at the end, whatever the rows of the modification table;
\* none of those rows matches anything.
C24_NoTableNoCharges ==
    ~doc.table =>
        /\ parser # "raised"
        /\ charges = <<>>
        /\ matched_indices = {}

\* C24's case: a record without charge table, with charge-like rows in its
\* markup and three rows in its modification table, was parsed to the end
C24_Witness ==
    /\ ~doc.table
    /\ Len(doc.rows) = 1
    /\ Len(doc.mods) = 3 /\ Len(modified_data) = 3
    /\ parser = "done"
    /\ charges = <<>>

(***************************************************************************)
(* Further properties of the coordinated workers.                          *)
(***************************************************************************)

\* C25 (failure containment): an exception while a worker works on page p
\* leaves the worker in its loop and makes no coordinator call, so the
\* ledger is untouched; while the worker has not asked again, a page p
\* that is assigned to it leaves that state only by
\* the reclaiming of a get_next_page call after the lease ran out; and the
\* next thing the worker does, if it does not die, is to call get_next_page.
C25_FailureContained ==
    /\ [][\A w \in {"w1", "w2"} :
             (wk[w].pc = "work" /\ wk'[w].raised) =>
                /\ wk'[w].pc = "loop"
                /\ pages' = pages /\ workers' = workers /\ last' = last]_vars
    /\ [][\A w \in {"w1", "w2"} :
             (wk[w].pc = "loop" /\ wk[w].raised) =>
                LET c   == wk[w].search_type
                    p   == wk[w].page_number
                    row == pages[c][p]
                IN  /\ (row.status = "assigned" /\ row.worker_id = w /\ pages'[c][p] # row) =>
                          /\ last'.op = "get_next_page"
                          /\ row.assigned_at + 30 < now
                          /\ pages'[c][p].retry_count = row.retry_count + 1
                    /\ wk'[w] # wk[w] =>
                          \/ wk'[w].pc = "crashed"
                          \/ /\ wk'[w].pc \in {"work", "ended"}
                             /\ last'.op = "get_next_page"]_vars

\* C25's case: w1 failed on page 1, asked again and went on with page 2,
\* while page 1 is still assigned to it
C25_Witness ==
    /\ wk["w1"].got = <<1, 2>> /\ wk["w1"].pc = "work"
    /\ wk["w2"].pc = "new"
    /\ \E c \in {"pending", "conviction"} :
          /\ Len(pages[c]) = 3
          /\ pages[c][1].status = "assigned" /\ pages[c][1].worker_id = "w1"
          /\ pages[c][1].retry_count = 0
          /\ pages[c][2].status = "assigned" /\ pages[c][2].worker_id = "w1"

\* C26 (transaction scope): the rows that an initialize_pages call inserts
\* are decided and written in one transaction, so the call adds rows only
\* to a search type that has none at the moment of the insert; and an
\* inserting call for a total of n leaves the pages 1..n or leaves the pages
\* that an earlier call had put there.
C26_TransactionScope ==
    [][\A c \in {"pending", "conviction"} : \A n \in 1..3 :
          (<<c, n>> \in initPending /\ <<c, n>> \notin initPending') =>
             /\ pages'[c] # pages[c] => pages[c] = <<>>
             /\ Len(pages'[c]) = n \/ pages'[c] = pages[c]]_vars

\* C26's case as the code runs it: a call for 1 page and a call for 2
\* pages both counted no rows; the first inserted page 1, a worker completed
\* it; then the second call inserted page 2 into the finished search type
C26_Witness ==
    /\ last = [op |-> "initialize_insert", result |-> 2]
    /\ initPending = {}
    /\ \E c \in {"pending", "conviction"} :
          /\ Len(pages[c]) = 2
          /\ pages[c][1].status = "completed"
          /\ pages[c][2].status = "pending" /\ pages[c][2].retry_count = 0

\* C27 (effect of reconciliation): the step of a modification row either
\* changes no charge, and parsing goes on, or changes one charge with the
\* row's statute and description, setting is_modified and the row's finding,
\* date, fine and fees and no other field; when parse_conviction_charges
\* returns, the charges are those read from the main table, as many and in
\* that order, with every field read there unchanged; a modified charge
\* carries the four values of a row with its key, and a charge that is not
\* modified, as is every charge whose key no row has, carries empty ones.
C27_ReconcileEffect ==
    /\ [][(parser = "merge" /\ mod_idx' = mod_idx + 1) =>
             /\ parser' = "merge"
             /\ Len(charges') = Len(charges)
             /\ \/ charges' = charges
                \/ \E c \in DOMAIN charges :
                      /\ \A o \in DOMAIN charges \ {c} : charges'[o] = charges[o]
                      /\ charges[c].Statute = modified_data[mod_idx].statute
                      /\ charges[c].Description = modified_data[mod_idx].description
                      /\ charges'[c].is_modified = TRUE
                      /\ charges'[c].modified_sentence_finding
                            = modified_data[mod_idx].verdict_finding
                      /\ charges'[c].modified_sentence_date
                            = modified_data[mod_idx].verdict_date
                      /\ charges'[c].modified_fine = modified_data[mod_idx].fine
                      /\ charges'[c].modified_fees = modified_data[mod_idx].fees
                      /\ \A key \in DOMAIN charges[c] \
                               {"is_modified", "modified_sentence_finding",
                                "modified_sentence_date", "modified_fine", "modified_fees"} :
                            charges'[c][key] = charges[c][key]]_vars
    /\ [](parser = "ensured" =>
             LET read == _parse_charges_from_malformed_table(doc.rows)
             IN  /\ Len(charges) = (IF doc.table THEN Len(read) ELSE 0)
                 /\ \A c \in DOMAIN charges :
                       /\ \A key \in DOMAIN read[c] : charges[c][key] = read[c][key]
                       /\ charges[c].is_modified =>
                             \E m \in DOMAIN modified_data :
                                /\ modified_data[m].statute = charges[c].Statute
                                /\ modified_data[m].description = charges[c].Description
                                /\ charges[c].modified_sentence_finding
                                      = modified_data[m].verdict_finding
                                /\ charges[c].modified_sentence_date
                                      = modified_data[m].verdict_date
                                /\ charges[c].modified_fine = modified_data[m].fine
                                /\ charges[c].modified_fees = modified_data[m].fees
                       /\ ~charges[c].is_modified =>
                             /\ charges[c].modified_sentence_finding = ""
                             /\ charges[c].modified_sentence_date = ""
                             /\ charges[c].modified_fine = ""
                             /\ charges[c].modified_fees = ""
                       /\ (\A m \in DOMAIN modified_data :
                              \/ modified_data[m].statute # charges[c].Statute
                              \/ modified_data[m].description # charges[c].Description)
                             => ~charges[c].is_modified)

\* C27's case: two charges and two modification rows, the first row with
\* the key of the second charge and the second row with a key that no
\* charge has; the second charge carries the first row's values, the first
\* charge is not modified
C27_Witness ==
    /\ parser = "ensured"
    /\ Len(charges) = 2 /\ Len(modified_data) = 2
    /\ modified_data[1].statute = charges[2].Statute
    /\ modified_data[1].description = charges[2].Description
    /\ \A c \in DOMAIN charges :
          \/ modified_data[2].statute # charges[c].Statute
          \/ modified_data[2].description # charges[c].Description
    /\ ~charges[1].is_modified /\ charges[1].modified_fees = ""
    /\ charges[2].is_modified
    /\ charges[2].modified_sentence_finding = "X1"
    /\ charges[2].modified_sentence_date = "3/3/2021"
    /\ charges[2].modified_fine = "$0.00"
    /\ charges[2].modified_fees = "$5.00"
    /\ matched_indices = {2}

\* C28 (markup recovery): for a record whose modification table holds a row
\* with the defect, parse_conviction_charges returns one charge for every
\* row of the main table, in order; every row of the modification table
\* that names a charge was read, in order, also the rows after the defect;
\* and a charge is marked modified exactly when it is the N-th charge with
\* its statute and description and the markup of the modification table has
\* at least N rows with them.
C28_MarkupRecovery ==
    (parser = "ensured" /\ doc.table /\ \E m \in DOMAIN doc.mods : doc.mods[m].defect) =>
        LET real == SelectSeq(doc.mods, LAMBDA r : r.statute \notin {"", " "})
            rawRows(c) ==
                Cardinality({m \in DOMAIN real :
                    /\ strip(real[m].statute) = charges[c].Statute
                    /\ real[m].description = charges[c].Description})
            occurrence(c) ==
                Cardinality({j \in 1..c :
                    /\ charges[j].Statute = charges[c].Statute
                    /\ charges[j].Description = charges[c].Description})
        IN  /\ Len(charges) = Len(doc.rows)
            /\ \A c \in DOMAIN charges :
                  /\ charges[c].Statute = strip(doc.rows[c].cells[1])
                  /\ charges[c].Description = doc.rows[c].cells[2]
                  /\ charges[c].charge_index = c - 1
                  /\ charges[c].is_modified <=> (occurrence(c) <= rawRows(c))
            /\ Len(modified_data) = Len(real)
            /\ \A m \in DOMAIN real :
                  /\ modified_data[m].statute = strip(real[m].statute)
                  /\ modified_data[m].verdict_finding = real[m].verdict_finding

\* C28's case: two charges, and a modification table whose first row has
\* the defect and names the first charge and whose second row names the
\* second charge; both rows were read and both charges are marked
C28_Witness ==
    /\ parser = "ensured"
    /\ Len(doc.rows) = 2 /\ Len(doc.mods) = 2
    /\ doc.mods[1].defect /\ ~doc.mods[2].defect
    /\ Len(modified_data) = 2
    /\ Len(charges) = 2
    /\ charges[1].Statute # charges[2].Statute
    /\ charges[1].is_modified /\ charges[1].modified_sentence_finding = "X1"
    /\ charges[2].is_modified /\ charges[2].modified_sentence_finding = "X2"

\* C30 (token freshness): in every step that submits the postback for a next
\* page, in the while loop and in the replay loop of a resumed run alike, the
\* hidden state fields and the postback target submitted are both read from
\* the response in hand, which is the answer to the listing request before it
\* and hence the listing response received last; and the hidden state
\* submitted is never that of the postback before, nor of any earlier one.
C30_TokenFreshness ==
    [][(Len(requests) >= 1 /\ Len(requests') = Len(requests) + 1) =>
          /\ run.serial = Len(requests)
          /\ run'.posted.__VIEWSTATE = run.serial
          /\ run'.posted.__EVENTTARGET # NoTarget
          /\ run'.posted.__EVENTTARGET[1] = run.serial
          /\ run'.posted.__EVENTTARGET[2] = requests[Len(requests)]
          /\ run.posted.__VIEWSTATE < run'.posted.__VIEWSTATE]_vars

\* C30's case: the second transition of a traversal submitted the hidden
\* state of the second listing response, in a plain traversal
C30_Witness ==
    /\ run.mode = "get_records"
    /\ Len(requests) = 3
    /\ run.posted.__VIEWSTATE = 2

\* the same in the replay loop of a resumed run
C30_WitnessReplay ==
    /\ run.mode = "with_checkpoint"
    /\ run.start_page > 2
    /\ Len(requests) = 3
    /\ run.posted.__VIEWSTATE = 2
    /\ run.posted.__EVENTTARGET = <<2, 2>>

(***************************************************************************)
(* Properties of the ledger as a whole.                                    *)
(***************************************************************************)
\* C31 (completed is absorbing): a row whose status is completed keeps that
\* status in every step, whichever of initialize_pages, register_worker,
\* get_next_page and mark_page_complete is called and by whichever worker,
\* and no get_next_page call on its search type returns its page number.
C31_CompletedAbsorbing ==
    [][\A c \in SearchTypes : \A p \in DOMAIN pages[c] :
          pages[c][p].status = "completed" =>
            /\ p \in DOMAIN pages'[c]
            /\ pages'[c][p].status = "completed"
            /\ \A w \in WorkerIds : GetNextPage(c, w) => last'.result # p]_vars

\* C31's case: a page was completed, its lease time has long run out, and a
\* later get_next_page call on its search type found nothing to hand out
C31_Witness ==
    \E c \in SearchTypes : \E p \in DOMAIN pages[c] :
        /\ pages[c][p].status = "completed"
        /\ pages[c][p].assigned_at + 30 < now
        /\ pages[c][p].completed_at < now
        /\ last.op = "get_next_page" /\ last.result = 0
        /\ \A q \in DOMAIN pages[c] : pages[c][q].status # "pending"

\* C32 (bounded retries): in every state every row has a retry_count from 0
\* to 3, and get_next_page has returned its page at most once more than the
\* row was reclaimed, hence at most 4 times; and in no step does the
\* retry_count of a row decrease.
C32_BoundedRetries ==
    /\ [](\A c \in SearchTypes : \A p \in DOMAIN pages[c] :
            /\ pages[c][p].retry_count \in 0..3
            /\ TimesReturned(c, p) <= pages[c][p].retry_count + 1
            /\ TimesReturned(c, p) <= 4)
    /\ [][\A c \in SearchTypes : \A p \in DOMAIN pages[c] :
            /\ p \in DOMAIN pages'[c]
            /\ pages'[c][p].retry_count >= pages[c][p].retry_count]_vars

\* C32's case: a page was handed out, reclaimed three times and handed out
\* after each, four times in all, and a later call found its fourth lease
\* expired and returned nothing
C32_Witness ==
    \E c \in SearchTypes : \E p \in DOMAIN pages[c] :
        /\ pages[c][p].retry_count = 3
        /\ TimesReturned(c, p) = 4
        /\ pages[c][p].status = "assigned"
        /\ pages[c][p].assigned_at + 30 < now
        /\ last.op = "get_next_page" /\ last.result = 0

\* C33 (worker accounting): in every state the pages_completed of a
\* registered worker is the number of rows that worker completed (the rows
\* that are completed under its worker_id); and a mark_page_complete call
\* for a row the caller does not own, or for a row already completed, leaves
\* the caller's pages_completed as it was.
C33_WorkerAccounting ==
    /\ [](\A w \in DOMAIN workers :
            workers[w].pages_completed =
                Cardinality({x \in SearchTypes \X (1..MaxPages) :
                    /\ x[2] \in DOMAIN pages[x[1]]
                    /\ pages[x[1]][x[2]].status = "completed"
                    /\ pages[x[1]][x[2]].worker_id = w}))
    /\ [][\A c \in SearchTypes, w \in DOMAIN workers : \A p \in DOMAIN pages[c] :
            (/\ MarkPageComplete(c, p, w)
             /\ pages[c][p].worker_id # w \/ pages[c][p].status = "completed")
            => workers'[w].pages_completed = workers[w].pages_completed]_vars

\* C33 as the code runs it: a registered worker called mark_page_complete
\* for a page leased to another worker; no page is completed, and the caller
\* has one page to its credit
C33_Witness ==
    \E c \in SearchTypes, w \in DOMAIN workers : \E p \in DOMAIN pages[c] :
        /\ last = [op |-> "mark_page_complete", result |-> p]
        /\ pages[c][p].status = "assigned"
        /\ pages[c][p].worker_id # w
        /\ workers[w].pages_completed = 1
        /\ \A v \in DOMAIN workers \ {w} : workers[v].pages_completed = 0
        /\ \A d \in SearchTypes : \A q \in DOMAIN pages[d] : pages[d][q].status # "completed"

\* C34 (owner and status agree): in every state a pending row has no
\* worker_id, an assigned row has a worker_id and an assigned_at, and a
\* completed row has a completed_at, a worker_id and an assigned_at; and in
\* every step a row either keeps its status or goes from pending to
\* assigned, from assigned to completed under the worker_id it had, or from
\* assigned to pending, never from pending to completed.
C34_OwnerStatusConsistent ==
    /\ [](\A c \in SearchTypes : \A p \in DOMAIN pages[c] :
            LET row == pages[c][p]
            IN  /\ row.status = "pending" => row.worker_id = NULL
                /\ row.status = "assigned" =>
                      row.worker_id \in WorkerIds /\ row.assigned_at # NullTime
                /\ row.status = "completed" =>
                      /\ row.completed_at # NullTime
                      /\ row.worker_id \in WorkerIds
                      /\ row.assigned_at # NullTime)
    /\ [][\A c \in SearchTypes : \A p \in DOMAIN pages[c] :
            LET old == pages[c][p]
                new == pages'[c][p]
            IN  /\ <<old.status, new.status>> \in
                      {<<"pending", "pending">>, <<"pending", "assigned">>,
                       <<"assigned", "assigned">>, <<"assigned", "completed">>,
                       <<"assigned", "pending">>, <<"completed", "completed">>}
                /\ new.status = "completed" => new.worker_id = old.worker_id]_vars

\* C34's case: of two pages handed out and reclaimed, one is completed by
\* the worker that got it again, the other is pending again without owner
C34_Witness ==
    \E c \in SearchTypes :
        /\ Len(pages[c]) = 2
        /\ pages[c][1].status = "completed" /\ pages[c][1].retry_count = 1
        /\ pages[c][1].worker_id \in WorkerIds
        /\ pages[c][1].completed_at = now
        /\ pages[c][2].status = "pending" /\ pages[c][2].retry_count = 1
        /\ pages[c][2].worker_id = NULL
        /\ pages[c][2].assigned_at # NullTime

C35_WitnessNone ==
    \E c \in SearchTypes : \E p \in DOMAIN pages[c] :
        /\ last = [op |-> "get_next_page", result |-> 0]
        /\ pages[c][p].status = "assigned"
        /\ pages[c][p].assigned_at + 30 < now
        /\ pages[c][p].retry_count = 3
        /\ TimesReturned(c, p) = 4
        /\ \A q \in DOMAIN pages[c] : pages[c][q].status # "pending"

\* the sum of f[x] over the x in S
RECURSIVE Total(_, _)
Total(f, S) ==
    IF S = {} THEN 0
    ELSE LET x == CHOOSE y \in S : TRUE IN f[x] + Total(f, S \ {x})

\* passes through the loop body of run_coordinated_worker, all workers together
Iterations == Total([w \in WorkerIds |-> Len(wk[w].got)], WorkerIds)

CrashedLease(c, v) ==
    /\ wk[v].pc \in {"loop", "work"}
    /\ \E w \in WorkerIds \ {v} : \E p \in DOMAIN pages[c] :
          /\ wk[w].pc = "crashed"
          /\ pages[c][p].status = "assigned"
          /\ pages[c][p].worker_id = w
          /\ pages[c][p].retry_count < 3

\* C37 (recovery from a crashed worker): when a worker has crashed holding
\* the lease of a page with retry_count < 3 while another worker is running
\* its loop, and that other worker never crashes and never fails on a page,
\* then eventually that page, and with it every page of the search type, is
\* completed.
C37_CrashRecovery ==
    \A v \in WorkerIds, c \in SearchTypes :
        [](wk[v].pc # "crashed" /\ ~wk[v].raised) =>
            (CrashedLease(c, v) ~>
                (\A p \in DOMAIN pages[c] : pages[c][p].status = "completed"))

\* C37 as the code runs it: a worker crashed holding the only page left;
\* the other worker, which never failed, asked for a page before the lease
\* had run out, was answered None and left its loop; the page stays assigned
\* to the crashed worker with its retries unused
C37_Witness ==
    \E c \in SearchTypes, w, v \in WorkerIds : \E p \in DOMAIN pages[c] :
        /\ wk[w].pc = "crashed"
        /\ pages[c][p].status = "assigned" /\ pages[c][p].worker_id = w
        /\ pages[c][p].retry_count = 0
        /\ pages[c][p].assigned_at + 30 >= now
        /\ wk[v].pc = "ended" /\ ~wk[v].raised
        /\ last = [op |-> "get_next_page", result |-> 0]
        /\ \A q \in DOMAIN pages[c] \ {p} : pages[c][q].status = "completed"

====
